---- MODULE Spec2Model ----
(***************************************************************************)
(* Drag/snap resolver, polar frame and animated contours of the radial     *)
(* strategy chart (src/src/App.tsx).  Lengths are integers in units of 1/PX of a CSS      *)
(* pixel, angles are integers in units of 1/Deg of a degree, so that the   *)
(* divisions the code performs on the modelled inputs are exact (a band    *)
(* position at the 5px outer radius may round down, where the clamp        *)
(* decides the radius).                                                    *)
(***************************************************************************)
EXTENDS Integers, Naturals, Sequences, FiniteSets, TLC

VARIABLES axes, nodes, size, selectedNodeId, draggingNodeId, dragPos,
          activePointerIdRef, dragStartClientRef, didDragRef, tap, ev,
          showNowBlob, showNextBlob, showLaterBlob, animRef, currentRadiiRef,
          rafQueue, autosave, seen

\* the chart, its ghosts tap and ev and the autosave record; seen is the last event or call a
\* specification chose to record, whether or not a handler acted on it
chartVars == <<axes, nodes, size, selectedNodeId, draggingNodeId, dragPos,
               activePointerIdRef, dragStartClientRef, didDragRef, tap, ev,
               showNowBlob, showNextBlob, showLaterBlob, animRef, currentRadiiRef,
               rafQueue, autosave>>

vars == <<chartVars, seen>>

\* the contour layer: whether it is mounted, its two refs and the frame
\* callbacks the browser holds
blobLayer == <<showNowBlob, showNextBlob, showLaterBlob, animRef, currentRadiiRef, rafQueue>>

\* the three contour toggles
blobToggles == <<showNowBlob, showNextBlob, showLaterBlob>>

\* showNowBlob || showNextBlob || showLaterBlob: BlobLayer is rendered
showBlobs == showNowBlob \/ showNextBlob \/ showLaterBlob

\* the drag resolver's record (the two state cells and the three refs)
dragRecord == <<draggingNodeId, dragPos, activePointerIdRef, dragStartClientRef, didDragRef>>

----------------------------------------------------------------------------
\* Units and bounds

\* length units per CSS pixel (divisible by every denominator of the layout)
PX == 4 * 3

\* largest sequence number a drop may assign in the model
MaxSeq == 2
\* the clock saturates after this many ticks since the last press
MaxTicks == 3
\* milliseconds per clock tick
TickMs == 320 \div 2

NullId == "null"
NullPointer == 0
NullPos == [set |-> FALSE, x |-> 0, y |-> 0]
Pos(x, y) == [set |-> TRUE, x |-> x, y |-> y]

Min2(a, b) == IF a <= b THEN a ELSE b
Max2(a, b) == IF a >= b THEN a ELSE b
Abs(a) == IF a < 0 THEN 0 - a ELSE a

\* Math.max(...list) over a non-empty sequence
RECURSIVE MaxOfSeq(_)
MaxOfSeq(s) == IF Len(s) = 1 THEN s[1] ELSE Max2(s[1], MaxOfSeq(Tail(s)))

\* integer square root (floor); exact on perfect squares
RECURSIVE ISqrt(_)
ISqrt(s) == IF s < 4 THEN (IF s = 0 THEN 0 ELSE 1)
            ELSE LET h == 2 * ISqrt(s \div 4) IN IF (h + 1) * (h + 1) <= s THEN h + 1 ELSE h

\* Math.hypot: the floor of the Euclidean length in model units.  It is the
\* exact length on every point of PointerOffsets (DragPosExact), and a
\* comparison "hypot >= c" with an integer c is exact on every point.
hypot(dx, dy) == ISqrt(dx * dx + dy * dy)

\* division by a positive number, rounded toward zero
TruncDiv(a, b) == IF a >= 0 THEN a \div b ELSE 0 - ((0 - a) \div b)

----------------------------------------------------------------------------
\* Angles (1/Deg of a degree; a full turn divides by every axis count 1..16)

Deg == 2 * 7 * 11 * 13
twoPi == 360 * Deg
PI == twoPi \div 2

normalizeAngle(rad) ==
  LET a == rad % twoPi  \* TLA+ % is already non-negative; JS adds twoPi when a < 0
  IN a

\* variant: the difference is not folded into [0, PI]
circularAngleDiff_nofold(a, b) == Abs(a - b) % twoPi

circularAngleDiff(a, b) ==
  LET d == Abs(a - b) % twoPi
  IN IF d > PI THEN twoPi - d ELSE d

\* Math.atan2 on the directions of the pointer grid: the four cardinal
\* directions and the 3-4-5 directions (53.130 and 36.870 degrees), result in
\* (-PI, PI].  Off the grid the angle is only given to the nearest octant;
\* a drag position is always a point of the grid (DragPosExact).
FirstQuadrantAngle(ax, ay) ==
  IF ay = 0 THEN 0
  ELSE IF ax = 0 THEN 90 * Deg
  ELSE IF 3 * ay = 4 * ax THEN (53130 * Deg) \div 1000
  ELSE IF 4 * ay = 3 * ax THEN (36870 * Deg) \div 1000
  ELSE IF ay = ax THEN 45 * Deg
  ELSE IF ay < ax THEN (45 * Deg) \div 2 ELSE (135 * Deg) \div 2

atan2(dy, dx) ==
  LET q == FirstQuadrantAngle(Abs(dx), Abs(dy))
  IN IF dx = 0 /\ dy = 0 THEN 0
     ELSE IF dx >= 0 /\ dy >= 0 THEN q
     ELSE IF dx < 0 /\ dy >= 0 THEN PI - q
     ELSE IF dx < 0 /\ dy < 0 THEN 0 - (PI - q)
     ELSE 0 - q

\* Math.cos / Math.sin times TrigScale, on the angles an axis can have
TrigScale == 10 * 1000
CosQ(a) ==
  CASE a = 0 -> 10000
    [] a = (45 * Deg) \div 2 -> 9239
    [] a = 30 * Deg -> 8660
    [] a = 45 * Deg -> 7071
    [] a = 60 * Deg -> 5000
    [] a = (135 * Deg) \div 2 -> 3827
    [] a = 90 * Deg -> 0
    [] OTHER -> IF a < 45 * Deg THEN 9239 ELSE 3827

cos(rad) ==
  LET a == normalizeAngle(rad)
  IN IF a <= PI \div 2 THEN CosQ(a)
     ELSE IF a <= PI THEN 0 - CosQ(PI - a)
     ELSE IF a <= PI + PI \div 2 THEN 0 - CosQ(a - PI)
     ELSE CosQ(twoPi - a)

sin(rad) == cos(rad - PI \div 2)

----------------------------------------------------------------------------
\* Data model

\* DEFAULT_RINGS: the ring list, in rank order
rings == <<"now", "next", "later", "uncommitted">>

AxisIds == <<"a1", "a2", "a3", "a4", "a5", "a6", "a7", "a8",
            "a9", "a10", "a11", "a12", "a13", "a14", "a15", "a16">>
\* the ids uid() hands out, in the order it hands them out
NodeIdPool == <<"n1", "n2", "n3", "n4", "n5", "n6">>
PointerIds == {1, 2}

\* NodeItem; label is the label's rank in localeCompare order
NodeItem(id, label, axisId, ringId, sequence) ==
  [id |-> id, label |-> label, axisId |-> axisId, ringId |-> ringId, sequence |-> sequence]

SeqToSet(s) == {s[i] : i \in 1..Len(s)}

\* array.find by id: the first node with that id, as a sequence of length <= 1
findNode(ns, id) == SelectSeq(ns, LAMBDA x: x.id = id)
hasNode(ns, id) == findNode(ns, id) # <<>>
nodeById(ns, id) == findNode(ns, id)[1]

\* array.findIndex: zero-based index of the first element with that id, or -1
findIndex(list, id) ==
  IF \E i \in 1..Len(list) : list[i].id = id
  THEN (CHOOSE i \in 1..Len(list) : list[i].id = id /\ \A j \in 1..(i - 1) : list[j].id # id) - 1
  ELSE 0 - 1

\* the comparator (a, b) => a.sequence - b.sequence || a.label.localeCompare(b.label)
nodeBefore(a, b) ==
  a.sequence < b.sequence \/ (a.sequence = b.sequence /\ a.label < b.label)

\* Array.prototype.sort with that comparator (stable)
RECURSIVE insertSorted(_, _)
insertSorted(s, n) ==
  IF s = <<>> THEN <<n>>
  ELSE IF nodeBefore(n, Head(s)) THEN <<n>> \o s
  ELSE <<Head(s)>> \o insertSorted(Tail(s), n)

RECURSIVE sortNodes(_)
sortNodes(s) ==
  IF s = <<>> THEN <<>>
  ELSE insertSorted(sortNodes(SubSeq(s, 1, Len(s) - 1)), s[Len(s)])

\* nodes.filter(axisId).slice().sort(...)
axisNodesOf(ns, axisId) == sortNodes(SelectSeq(ns, LAMBDA n: n.axisId = axisId))

\* nodesByRing[ringId] ?? []  (only ids of the ring list have an entry)
nodesByRing(axisNodes, ringId) ==
  IF ringId \in SeqToSet(rings)
  THEN SelectSeq(axisNodes, LAMBDA n: n.ringId = ringId)
  ELSE <<>>

----------------------------------------------------------------------------
\* Viewport and polar frame

padding == 56 * PX
spread == 18 * PX
DRAG_THRESHOLD_PX == 5 * PX

w == IF size.width > 0 THEN size.width ELSE 1000 * PX
h == IF size.height > 0 THEN size.height ELSE 800 * PX
cx2 == w \div 2
cy2 == h \div 2

outerR2 == Max2(1 * PX, Min2(w, h) \div 2 - padding)
ringNow == (outerR2 * 4) \div 10
ringNext == (outerR2 * 7) \div 10
ringLater == outerR2

axisAngleOffset ==
  IF Len(axes) = 4 THEN PI \div 4
  ELSE IF Len(axes) = 8 THEN PI \div 8
  ELSE 0

\* axisAngleOffset + (-Math.PI / 2 + (i * 2 * Math.PI) / axes.length), i zero-based
axisAngle(i) == axisAngleOffset + ((0 - PI \div 2) + (i * twoPi) \div Len(axes))

\* axA, the angle the drop is compared with
snapAxisAngle(i) == normalizeAngle(axisAngle(i))

\* the angle of the axis line and of the axis label
axisLineAngle(i) ==
  LET n == Len(axes)
  IN axisAngleOffset + ((0 - PI \div 2) + (i * twoPi) \div n)

\* the angle of the dots of the axis with index axisIndex
dotAngle(axisIndex) == axisAngleOffset + ((0 - PI \div 2) + (axisIndex * twoPi) \div Len(axes))

\* variant: the contour is not rotated with the axes
radiiToPathAngle_noOffset(i) == (0 - PI \div 2) + (i * twoPi) \div Len(axes)

\* the angle of the contour vertex of radiiToPath, which computes its own offset
radiiToPathAngle(i) ==
  LET offset == IF Len(axes) = 4 THEN PI \div 4
                ELSE IF Len(axes) = 8 THEN PI \div 8
                ELSE 0
  IN offset + ((0 - PI \div 2) + (i * twoPi) \div Len(axes))

\* ringRadiusByIdBase[ringId] ?? ringLater
ringRadiusByIdBase(ringId) ==
  CASE ringId = "now" -> ringNow
    [] ringId = "next" -> ringNext
    [] ringId = "later" -> ringLater
    [] OTHER -> ringLater

\* ((idx / (k - 1)) * 2 - 1) * spread, 0 when k <= 1
spreadOffset(idx, k) ==
  IF k <= 1 THEN 0 ELSE (idx * 2 * spread) \div (k - 1) - spread

DRAG_MAX_R == ringLater - 10 * PX

\* the stage's bounding rectangle in client coordinates
RectLeft == 24 * PX
RectTop == 16 * PX
rect == [left |-> RectLeft, top |-> RectTop, width |-> size.width, height |-> size.height]

clientToSvgPoint(clientX, clientY) ==
  Pos(((clientX - rect.left) * w) \div rect.width,
      ((clientY - rect.top) * h) \div rect.height)

\* variant: the point is not clamped
clampPointToOuterCircle_none(p) == p

clampPointToOuterCircle(p) ==
  LET dx == p.x - cx2
      dy == p.y - cy2
      r == hypot(dx, dy)
  IN IF r <= DRAG_MAX_R \/ r = 0 THEN p
     ELSE Pos(cx2 + TruncDiv(dx * DRAG_MAX_R, r), cy2 + TruncDiv(dy * DRAG_MAX_R, r))

\* index (1-based) chosen by the loop "if (d < best)" from bestAxisId = axes[0]
RECURSIVE bestAxisIndex(_, _, _, _)
bestAxisIndex(dropA, i, bestI, best) ==
  IF i > Len(axes) THEN bestI
  ELSE LET axA == snapAxisAngle(i - 1)
           d == circularAngleDiff(dropA, axA)
       IN IF best < 0 \/ d < best
          THEN bestAxisIndex(dropA, i + 1, i, d)
          ELSE bestAxisIndex(dropA, i + 1, bestI, best)

snapAxisIdFromPoint(x, y) ==
  IF Len(axes) = 0 THEN ""
  ELSE LET dropA == normalizeAngle(atan2(y - cy2, x - cx2))
       IN axes[bestAxisIndex(dropA, 1, 1, 0 - 1)]

\* raw radius (base + spread offset) of a committed node on its axis
committedRawR(axisNodes, cn) ==
  LET base == ringRadiusByIdBase(cn.ringId)
      ringList == nodesByRing(axisNodes, cn.ringId)
      idx == findIndex(ringList, cn.id)
      k == Len(ringList)
  IN base + spreadOffset(idx, k)

computeCommittedMaxRawRForAxis(axisId) ==
  LET axisNodes == axisNodesOf(nodes, axisId)
      committed == SelectSeq(axisNodes, LAMBDA n: n.ringId # "uncommitted")
  IN IF Len(committed) = 0 THEN 0
     ELSE MaxOfSeq([i \in 1..Len(committed) |-> committedRawR(axisNodes, committed[i])])

\* nearest of now/next/later by |dropR - r|, the earlier candidate on a tie
nearestRing(dropR) ==
  LET dNow == Abs(dropR - ringNow)
      dNext == Abs(dropR - ringNext)
      dLater == Abs(dropR - ringLater)
      best1 == IF dNext < dNow THEN "next" ELSE "now"
      bestD1 == IF dNext < dNow THEN dNext ELSE dNow
  IN IF dLater < bestD1 THEN "later" ELSE best1

\* variant: uncommitted is a snap target only from the outer ring on
snapRingIdFromRadius_outerOnly(axisId, dropR) ==
  IF dropR >= ringLater THEN "uncommitted" ELSE nearestRing(dropR)

\* variant: the drop must be strictly beyond the threshold
snapRingIdFromRadius_strict(axisId, dropR) ==
  LET committedMaxRawR == computeCommittedMaxRawRForAxis(axisId)
      uncommittedMidR == IF committedMaxRawR = 0 THEN ringLater \div 2
                         ELSE (committedMaxRawR + ringLater) \div 2
  IN IF dropR > uncommittedMidR THEN "uncommitted" ELSE nearestRing(dropR)

snapRingIdFromRadius(axisId, dropR) ==
  LET committedMaxRawR == computeCommittedMaxRawRForAxis(axisId)
      uncommittedMidR == IF committedMaxRawR = 0 THEN ringLater \div 2
                         ELSE (committedMaxRawR + ringLater) \div 2
  IN IF dropR >= uncommittedMidR THEN "uncommitted" ELSE nearestRing(dropR)

----------------------------------------------------------------------------
\* Node radius resolver (the node rendering loop)

\* variant: the band of the uncommitted nodes starts at the furthest now/next
\* dot, later nodes not counted
nodeRadius_innerFrontier(axisNodes, n) ==
  LET ringList == nodesByRing(axisNodes, n.ringId)
      idx == findIndex(ringList, n.id)
      k == Len(ringList)
      committedNodes == SelectSeq(axisNodes, LAMBDA c: c.ringId \in {"now", "next"})
      committedMaxRawR ==
        IF Len(committedNodes) = 0 THEN 0
        ELSE MaxOfSeq([i \in 1..Len(committedNodes) |-> committedRawR(axisNodes, committedNodes[i])])
      uncommittedCount == Len(nodesByRing(axisNodes, "uncommitted"))
      uncommittedStartR == IF Len(committedNodes) = 0 THEN 0 ELSE committedMaxRawR
      uncommittedEndR == ringLater
      baseR == IF n.ringId = "uncommitted"
               THEN IF uncommittedCount <= 0 THEN uncommittedStartR
                    ELSE uncommittedStartR
                         + ((idx + 1) * (uncommittedEndR - uncommittedStartR)) \div (uncommittedCount + 1)
               ELSE ringRadiusByIdBase(n.ringId)
      offset == IF n.ringId = "uncommitted" THEN 0 ELSE spreadOffset(idx, k)
      rawR == baseR + offset
      maxR == ringLater - 10 * PX
  IN Min2(rawR, maxR)

\* radius at which a node's dot is drawn when it is not being dragged
nodeRadius(axisNodes, n) ==
  LET ringList == nodesByRing(axisNodes, n.ringId)
      idx == findIndex(ringList, n.id)
      k == Len(ringList)
      committedNodes == SelectSeq(axisNodes, LAMBDA c: c.ringId # "uncommitted")
      committedMaxRawR ==
        IF Len(committedNodes) = 0 THEN 0
        ELSE MaxOfSeq([i \in 1..Len(committedNodes) |-> committedRawR(axisNodes, committedNodes[i])])
      uncommittedCount == Len(nodesByRing(axisNodes, "uncommitted"))
      uncommittedStartR == IF Len(committedNodes) = 0 THEN 0 ELSE committedMaxRawR
      uncommittedEndR == ringLater
      baseR == IF n.ringId = "uncommitted"
               THEN IF uncommittedCount <= 0 THEN uncommittedStartR
                    ELSE uncommittedStartR
                         + ((idx + 1) * (uncommittedEndR - uncommittedStartR)) \div (uncommittedCount + 1)
               ELSE ringRadiusByIdBase(n.ringId)
      offset == IF n.ringId = "uncommitted" THEN 0 ELSE spreadOffset(idx, k)
      rawR == baseR + offset
      maxR == ringLater - 10 * PX
  IN Min2(rawR, maxR)

\* a node is drawn only under an axis of the axis list
rendered(n) == n.axisId \in SeqToSet(axes)

axisIndexOf(axisId) == (CHOOSE i \in 1..Len(axes) : axes[i] = axisId) - 1

isDraggingThis(n) == draggingNodeId = n.id /\ dragPos.set /\ didDragRef

\* the point (x, y) at which the node's dot is drawn
nodeDisplayPos(n) ==
  LET angle == dotAngle(axisIndexOf(n.axisId))
      r == nodeRadius(axisNodesOf(nodes, n.axisId), n)
      baseX == cx2 + TruncDiv(r * cos(angle), TrigScale)
      baseY == cy2 + TruncDiv(r * sin(angle), TrigScale)
  IN IF isDraggingThis(n) THEN Pos(dragPos.x, dragPos.y) ELSE Pos(baseX, baseY)

----------------------------------------------------------------------------
\* Contour builder (BlobLayer)

\* ringRank2[ringId] ?? 0: the zero-based position in the ring list
ringRank2(ringId) ==
  IF \E i \in 1..Len(rings) : rings[i] = ringId
  THEN (CHOOSE i \in 1..Len(rings) : rings[i] = ringId) - 1
  ELSE 0

\* ringRadiusById[ringId] ?? ringLater, keyed by the first three rings
ringRadiusById(ringId) ==
  IF Len(rings) >= 1 /\ ringId = rings[1] THEN ringNow
  ELSE IF Len(rings) >= 2 /\ ringId = rings[2] THEN ringNext
  ELSE IF Len(rings) >= 3 /\ ringId = rings[3] THEN ringLater
  ELSE ringLater

dotRadiusForNodeOnAxis(axisNodesOrdered, n) ==
  LET baseR == ringRadiusById(n.ringId)
      ringList == SelectSeq(axisNodesOrdered, LAMBDA x: x.ringId = n.ringId)
      idx == findIndex(ringList, n.id)
      k == Len(ringList)
  IN baseR + spreadOffset(idx, k)

\* variant: a contour follows only the nodes of its own ring
contourRadius_ownRing(ns, axisId, targetRank) ==
  LET axisNodesOrdered == axisNodesOf(ns, axisId)
      eligible == SelectSeq(axisNodesOrdered,
                            LAMBDA n: n.ringId # "uncommitted" /\ ringRank2(n.ringId) = targetRank)
  IN IF Len(eligible) = 0 THEN 0
     ELSE MaxOfSeq([i \in 1..Len(eligible) |->
                      dotRadiusForNodeOnAxis(axisNodesOrdered, eligible[i])])

\* the callback of axes.map in buildRadiiForTargetRank, for one axis
contourRadius(ns, axisId, targetRank) ==
  LET axisNodesOrdered == axisNodesOf(ns, axisId)
      eligible == SelectSeq(axisNodesOrdered,
                            LAMBDA n: n.ringId # "uncommitted" /\ ringRank2(n.ringId) <= targetRank)
  IN IF Len(eligible) = 0 THEN 0
     ELSE MaxOfSeq([i \in 1..Len(eligible) |->
                      dotRadiusForNodeOnAxis(axisNodesOrdered, eligible[i])])

buildRadiiForTargetRank(targetRank) ==
  [i \in 1..Len(axes) |-> contourRadius(nodes, axes[i], targetRank)]

----------------------------------------------------------------------------
\* Contour paths (BlobLayer): a path is the sequence of the characters of
\* its d attribute

\* `${x}` for a non-negative number: its decimal numeral
RECURSIVE digitsOf(_)
digitsOf(k) ==
  LET Digit == <<"0", "1", "2", "3", "4", "5", "6", "7", "8", "9">>
  IN IF k < 10 THEN <<Digit[k + 1]>>
     ELSE Append(digitsOf(k \div 10), Digit[(k % 10) + 1])

\* `${x}`
numeral(x) == IF x < 0 THEN <<"-">> \o digitsOf(0 - x) ELSE digitsOf(x)

\* parts.join(sep)
RECURSIVE join(_, _)
join(parts, sep) ==
  IF parts = <<>> THEN <<>>
  ELSE IF Len(parts) = 1 THEN parts[1]
  ELSE parts[1] \o sep \o join(Tail(parts), sep)

\* `M ${p.x} ${p.y}`
moveTo(p) == <<"M", " ">> \o numeral(p.x) \o <<" ">> \o numeral(p.y)

\* `L ${p.x} ${p.y}`
lineTo(p) == <<"L", " ">> \o numeral(p.x) \o <<" ">> \o numeral(p.y)

\* `C ${cp1x} ${cp1y}, ${cp2x} ${cp2y}, ${p2.x} ${p2.y}`
curveTo(cp1x, cp1y, cp2x, cp2y, p2) ==
  <<"C", " ">> \o numeral(cp1x) \o <<" ">> \o numeral(cp1y) \o <<",", " ">>
    \o numeral(cp2x) \o <<" ">> \o numeral(cp2y) \o <<",", " ">>
    \o numeral(p2.x) \o <<" ">> \o numeral(p2.y)

\* the body of the for loop, for i = 0..n-1 (control points rounded toward
\* the anchor to the length unit)
curveSegment(pts, i, tension) ==
  LET n == Len(pts)
      p0 == pts[((i - 1 + n) % n) + 1]
      p1 == pts[i + 1]
      p2 == pts[((i + 1) % n) + 1]
      p3 == pts[((i + 2) % n) + 1]
      cp1x == p1.x + TruncDiv(p2.x - p0.x, 6) * tension
      cp1y == p1.y + TruncDiv(p2.y - p0.y, 6) * tension
      cp2x == p2.x - TruncDiv(p3.x - p1.x, 6) * tension
      cp2y == p2.y - TruncDiv(p3.y - p1.y, 6) * tension
  IN curveTo(cp1x, cp1y, cp2x, cp2y, p2)

\* variant: the loop stops before the segment that returns to point 0
smoothClosedPathFromPoints_open(pts, tension) ==
  IF Len(pts) < 3
  THEN IF Len(pts) = 0 THEN <<>>
       ELSE LET d0 == moveTo(pts[1])
                lines == join([i \in 1..(Len(pts) - 1) |-> lineTo(pts[i + 1])], <<" ">>)
            IN d0 \o <<" ">> \o lines \o <<" ", "Z">>
  ELSE LET n == Len(pts)
           d == <<moveTo(pts[1])>>
                  \o [k \in 1..(n - 1) |-> curveSegment(pts, k - 1, tension)]
                  \o << <<"Z">> >>
       IN join(d, <<" ">>)

smoothClosedPathFromPoints(pts, tension) ==
  IF Len(pts) < 3
  THEN IF Len(pts) = 0 THEN <<>>
       ELSE LET d0 == moveTo(pts[1])
                lines == join([i \in 1..(Len(pts) - 1) |-> lineTo(pts[i + 1])], <<" ">>)
            IN d0 \o <<" ">> \o lines \o <<" ", "Z">>
  ELSE LET n == Len(pts)
           d == <<moveTo(pts[1])>>
                  \o [k \in 1..n |-> curveSegment(pts, k - 1, tension)]
                  \o << <<"Z">> >>
       IN join(d, <<" ">>)

\* const pts = radii.map(...) of radiiToPath
contourPoints(radii) ==
  [k \in 1..Len(radii) |->
     LET angle == radiiToPathAngle(k - 1)
     IN [x |-> cx2 + TruncDiv(radii[k] * cos(angle), TrigScale),
         y |-> cy2 + TruncDiv(radii[k] * sin(angle), TrigScale)]]

radiiToPath(radii, tension) == smoothClosedPathFromPoints(contourPoints(radii), tension)

----------------------------------------------------------------------------
\* Contour animator (BlobLayer): animRef, currentRadiiRef and the frame
\* callbacks requested from the browser.  The animation clock is kept as the
\* time since a.start, in steps of FrameMs.

\* const dur = 360
dur == 360
\* milliseconds per step of the animation clock
FrameMs == dur \div 2
\* steps of the clock in one animation
Steps == dur \div FrameMs
\* an effect runs only while the browser holds fewer callbacks than this
MaxPending == 2

NullRaf == 0
NullAnim == [set |-> FALSE, raf |-> NullRaf, from |-> <<>>, to |-> <<>>, elapsed |-> 0]

\* no event or call recorded; was and held are the active pointer and the
\* dragging node at the time a pointer event arrives
NoCall == [type |-> "none", pid |-> NullPointer, axisId |-> NullId, node |-> NullId,
           direction |-> 0, was |-> NullPointer, held |-> NullId, stamp |-> 0]

\* the record of the next event or call: the stamp alternates
Recorded(call) == [call EXCEPT !.stamp = 1 - seen.stamp]

\* [0, 1, 2].map(buildRadiiForTargetRank)
targetRadii ==
  <<buildRadiiForTargetRank(0), buildRadiiForTargetRank(1), buildRadiiForTargetRank(2)>>

\* the denominator of the eased progress
EaseDen == 2 * Steps * Steps * Steps

\* easeInOutCubic(e / Steps), as a multiple of 1 / EaseDen
easeInOutCubic(e) ==
  IF 2 * e < Steps THEN 8 * e * e * e
  ELSE EaseDen - (2 * Steps - 2 * e) * (2 * Steps - 2 * e) * (2 * Steps - 2 * e)

\* a.from[ringIdx]?.[i] ?? 0
fromValue(from, ringIdx, i) ==
  IF ringIdx <= Len(from) /\ i <= Len(from[ringIdx]) THEN from[ringIdx][i] ELSE 0

\* the blended arrays of tick, for the eased progress t / EaseDen (rounded
\* toward the start value to the length unit)
blended(a, t) ==
  [ringIdx \in 1..Len(a.to) |->
     [i \in 1..Len(a.to[ringIdx]) |->
        LET fromV == fromValue(a.from, ringIdx, i)
            toV == a.to[ringIdx][i]
        IN fromV + TruncDiv((toV - fromV) * t, EaseDen)]]

\* requestAnimationFrame: the id of the callback it queues, one that no
\* callback of the given set has
requestAnimationFrame(held) ==
  CHOOSE id \in 1..(Cardinality(held) + 1) :
    /\ \A f \in held : f.id # id
    /\ \A smaller \in 1..(id - 1) : \E f \in held : f.id = smaller

cancelAnimationFrame(queue, id) == { f \in queue : f.id # id }

\* if (animRef.current?.raf) cancelAnimationFrame(animRef.current.raf)
cancelRecorded(queue) ==
  IF animRef.set /\ animRef.raf # NullRaf THEN cancelAnimationFrame(queue, animRef.raf)
  ELSE queue

\* variant: a restart begins at the targets of the animation it replaces
animFrom_targets == IF animRef.set THEN animRef.to ELSE currentRadiiRef

\* const from = currentRadiiRef.current.map((arr) => arr.slice())
animFrom == currentRadiiRef

\* variant: the targets are those of the render before the change
nextTo_stale == targetRadii

\* const nextTo = [0, 1, 2].map(build), built from the axes and nodes of the
\* render that runs the effect
nextTo == targetRadii'

\* the useLayoutEffect of BlobLayer after a render with a new axes or nodes
\* array: the cleanup of the previous run, then the body of the new one
useLayoutEffect ==
  IF ~showBlobs THEN UNCHANGED blobLayer
  ELSE LET kept == cancelRecorded(rafQueue)
       IN /\ Cardinality(rafQueue) < MaxPending
          /\ animRef' = [set |-> TRUE, raf |-> NullRaf, from |-> animFrom, to |-> nextTo,
                         elapsed |-> 0]
          /\ rafQueue' = kept \cup {[id |-> requestAnimationFrame(kept), live |-> TRUE]}
          /\ UNCHANGED <<blobToggles, currentRadiiRef>>

\* variant: the completing frame leaves the animation record in place
tick_keepRecord(st) ==
  LET a == st.animRef
      tRaw == Min2(Steps, Max2(0, a.elapsed))
      t == easeInOutCubic(tRaw)
  IN IF ~a.set THEN st
     ELSE IF tRaw < Steps
     THEN LET id == requestAnimationFrame(rafQueue \cup st.queue)
          IN [animRef |-> [a EXCEPT !.raf = id],
              currentRadiiRef |-> blended(a, t),
              queue |-> st.queue \cup {[id |-> id, live |-> TRUE]}]
     ELSE [animRef |-> a, currentRadiiRef |-> a.to, queue |-> st.queue]

\* tick(now), run on the refs st.animRef and st.currentRadiiRef; st.queue are
\* the callbacks requested so far in this frame
tick(st) ==
  LET a == st.animRef
      tRaw == Min2(Steps, Max2(0, a.elapsed))
      t == easeInOutCubic(tRaw)
  IN IF ~a.set THEN st
     ELSE IF tRaw < Steps
     THEN LET id == requestAnimationFrame(rafQueue \cup st.queue)
          IN [animRef |-> [a EXCEPT !.raf = id],
              currentRadiiRef |-> blended(a, t),
              queue |-> st.queue \cup {[id |-> id, live |-> TRUE]}]
     ELSE [animRef |-> NullAnim, currentRadiiRef |-> a.to, queue |-> st.queue]

\* n callbacks run one after the other
RECURSIVE runCallbacks(_, _)
runCallbacks(n, st) ==
  IF n = 0 THEN st
  ELSE CHOOSE after \in { runCallbacks(n - 1, next) : next \in {tick(st)} } : TRUE

\* an animation frame of the browser: every callback it holds runs, those of
\* an unmounted layer on refs that are null
AnimationFrame ==
  /\ rafQueue # {}
  /\ LET live == { f \in rafQueue : f.live }
         st == runCallbacks(Cardinality(live),
                            [animRef |-> animRef, currentRadiiRef |-> currentRadiiRef,
                             queue |-> {}])
     IN /\ animRef' = st.animRef
        /\ currentRadiiRef' = st.currentRadiiRef
        /\ rafQueue' = st.queue
  /\ UNCHANGED <<axes, nodes, size, selectedNodeId, dragRecord, tap, ev, blobToggles,
                 autosave, seen>>

\* time passes while an animation is in flight
Elapse ==
  /\ animRef.set
  /\ animRef.elapsed < Steps
  /\ animRef' = [animRef EXCEPT !.elapsed = animRef.elapsed + 1]
  /\ UNCHANGED <<axes, nodes, size, selectedNodeId, dragRecord, tap, ev, blobToggles,
                 currentRadiiRef, rafQueue, autosave, seen>>

\* the state setters of a toggle's onChange, followed by the render: a
\* BlobLayer that comes to be rendered mounts (its refs are created and its
\* effect runs), one that ceases to be rendered unmounts (the cleanup of its
\* effect runs)
setBlobToggles(now, nxt, later) ==
  /\ showNowBlob' = now
  /\ showNextBlob' = nxt
  /\ showLaterBlob' = later
  /\ IF ~showBlobs /\ (now \/ nxt \/ later)
     THEN /\ Cardinality(rafQueue) < MaxPending
          /\ currentRadiiRef' = targetRadii
          /\ animRef' = [set |-> TRUE, raf |-> NullRaf, from |-> targetRadii,
                         to |-> targetRadii, elapsed |-> 0]
          /\ rafQueue' = rafQueue \cup {[id |-> requestAnimationFrame(rafQueue), live |-> TRUE]}
     ELSE IF showBlobs /\ ~(now \/ nxt \/ later)
     THEN /\ animRef' = NullAnim
          /\ currentRadiiRef' = <<>>
          /\ rafQueue' = { [f EXCEPT !.live = FALSE] : f \in cancelRecorded(rafQueue) }
     ELSE UNCHANGED <<animRef, currentRadiiRef, rafQueue>>
  /\ UNCHANGED <<axes, nodes, size, selectedNodeId, dragRecord, tap, ev, autosave, seen>>

\* onChange of the master toggle "Rings"
ToggleRings ==
  LET next == ~(showNowBlob /\ showNextBlob /\ showLaterBlob)
  IN setBlobToggles(next, next, next)

\* onChange of the Now toggle
ToggleNow ==
  LET next == ~showNowBlob
  IN setBlobToggles(next,
                    IF ~next THEN FALSE ELSE showNextBlob,
                    IF ~next THEN FALSE ELSE showLaterBlob)

\* variant: turning Next off leaves Later as it is
laterAfterNext_keep(next) == showLaterBlob

\* else { setShowLaterBlob(false) } of the Next toggle
laterAfterNext(next) == IF next THEN showLaterBlob ELSE FALSE

\* onChange of the Next toggle
ToggleNext ==
  LET next == ~showNextBlob
  IN setBlobToggles(IF next THEN TRUE ELSE showNowBlob, next, laterAfterNext(next))

\* onChange of the Later toggle
ToggleLater ==
  LET next == ~showLaterBlob
  IN setBlobToggles(IF next THEN TRUE ELSE showNowBlob,
                    IF next THEN TRUE ELSE showNextBlob,
                    next)

\* the master toggle is ticked while no contour is shown
ShowBlobs == ~showBlobs /\ ToggleRings

\* the master toggle is cleared while all contours are shown
HideBlobs == showNowBlob /\ showNextBlob /\ showLaterBlob /\ ToggleRings

----------------------------------------------------------------------------
\* Autosave

\* no snapshot
NullSnapshot == "null"

\* buildStatePayload(): the working state as it is stored in a snapshot
buildStatePayload == [axes |-> axes, nodes |-> nodes]

\* the record after the one-time init has loaded the active snapshot into
\* the working state: autosave off, hasHydratedRef as created, no timeout
\* pending
Loaded ==
  [autoSaveEnabled |-> FALSE, hasHydratedRef |-> FALSE, autosaveTimerRef |-> FALSE,
   activeSnapshotId |-> "s1", state |-> buildStatePayload]

\* saveCurrentSnapshot: the payload replaces the state of the active snapshot
saveCurrentSnapshot(a) ==
  IF a.activeSnapshotId = NullSnapshot THEN a
  ELSE [a EXCEPT !.state = buildStatePayload]

\* the autosave effect after a render with a new value among its
\* dependencies: the cleanup of the previous run clears a pending timeout,
\* the body sets one unless autosave is off or hasHydratedRef is false
autosaveEffect ==
  autosave' = [autosave EXCEPT
                 !.autosaveTimerRef = autosave.autoSaveEnabled /\ autosave.hasHydratedRef]

----------------------------------------------------------------------------
\* Pointer inputs

\* directions of the pointer grid, as (x, y, length) with y growing downward
Directions ==
  { <<1, 0, 1>>, <<0, 1, 1>>, <<0, 0 - 1, 1>>,
    <<3, 4, 5>>, <<0 - 4, 3, 5>>, <<0 - 3, 0 - 4, 5>> }

\* distances from the drawing center, in pixels (multiples of 5)
Radii == {150, 280, 300, 345, 480}

\* offsets from the center a pointer event can have
PointerOffsets ==
  { <<(d[1] * r * PX) \div d[3], (d[2] * r * PX) \div d[3]>> : d \in Directions, r \in Radii }
    \cup { <<0, 0>> }

\* displacements from the press position that stay below the drag threshold
SmallMoves == { <<3 * PX, 0>>, <<0, 0 - 4 * PX>> }

\* client coordinates of a point of the drawing (inverse of clientToSvgPoint)
svgToClient(x, y) == Pos(rect.left + x, rect.top + y)

\* ev is the last pointer event that a handler acted on (an event a handler
\* returns from at its first guards leaves no trace), with the client
\* position it carried; tap is the node of the last press and the time since
\* then, in ticks
NoEvent == [type |-> "none", pid |-> NullPointer, node |-> NullId, outcome |-> "none",
            x |-> 0, y |-> 0, dropR |-> 0, axisId |-> NullId, ringId |-> NullId,
            sincePrev |-> 0 - 1]

----------------------------------------------------------------------------
\* Initial state: a chart as loaded from a snapshot

InitialNodes ==
  << NodeItem("n1", 1, "a1", "now", 1),
     NodeItem("n2", 2, "a1", "next", 2) >>

InitWith(n) ==
  /\ axes = SubSeq(AxisIds, 1, n)
  /\ nodes = InitialNodes
  /\ size = [width |-> 1000 * PX, height |-> 912 * PX]
  /\ selectedNodeId = NullId
  /\ draggingNodeId = NullId
  /\ dragPos = NullPos
  /\ activePointerIdRef = NullPointer
  /\ dragStartClientRef = NullPos
  /\ didDragRef = FALSE
  /\ tap = [node |-> NullId, age |-> 0]
  /\ ev = NoEvent
  /\ showNowBlob = FALSE
  /\ showNextBlob = FALSE
  /\ showLaterBlob = FALSE
  /\ animRef = NullAnim
  /\ currentRadiiRef = <<>>
  /\ rafQueue = {}
  /\ autosave = Loaded
  /\ seen = NoCall

Init == InitWith(3)

----------------------------------------------------------------------------
\* Handlers

\* variant: pressing the selected node clears the selection
pressSelection_toggle(n) == IF selectedNodeId = n.id THEN NullId ELSE n.id

\* setSelectedNodeId(n.id) of onPointerDown
pressSelection(n) == n.id

\* variant: a quick second press on the same node starts no drag
pressDragging_double(n) ==
  IF tap.node = n.id /\ tap.age * TickMs <= 320 THEN NullId ELSE n.id

\* variant: a press during an interaction leaves its node in the drag
pressDragging_first(n) ==
  IF activePointerIdRef # NullPointer /\ draggingNodeId # NullId THEN draggingNodeId ELSE n.id

\* setDraggingNodeId(n.id) of onPointerDown
pressDragging(n) == n.id

\* onPointerDown of a node's <g>: the pointer is on the node's dot.  A second
\* pointer does not press the dot that is following the first one.
onPointerDown(n, pid) ==
  LET p == nodeDisplayPos(n)
      client == svgToClient(p.x, p.y)
  IN /\ rendered(n)
     /\ ~isDraggingThis(n)
     /\ selectedNodeId' = pressSelection(n)
     /\ activePointerIdRef' = pid
     /\ dragStartClientRef' = Pos(client.x, client.y)
     /\ didDragRef' = FALSE
     /\ draggingNodeId' = pressDragging(n)
     /\ dragPos' = Pos(p.x, p.y)
     /\ tap' = [node |-> n.id, age |-> 0]
     /\ ev' = [NoEvent EXCEPT !.type = "down", !.pid = pid, !.node = n.id,
                              !.outcome = "pressed", !.x = client.x, !.y = client.y,
                              !.sincePrev = IF tap.node = n.id THEN tap.age * TickMs ELSE 0 - 1]
     /\ UNCHANGED <<axes, nodes, size, blobLayer, autosave>>

PointerDown(n, pid) == onPointerDown(n, pid) /\ UNCHANGED seen

\* variant: the movement must exceed the threshold
crossedThreshold_strict(clientX, clientY) ==
  IF dragStartClientRef.set
  THEN LET dx == clientX - dragStartClientRef.x
           dy == clientY - dragStartClientRef.y
       IN IF ~didDragRef /\ dx * dx + dy * dy > DRAG_THRESHOLD_PX * DRAG_THRESHOLD_PX
          THEN TRUE ELSE didDragRef
  ELSE didDragRef

\* the threshold test of pointerMoveDrag: the new value of didDragRef
crossedThreshold(clientX, clientY) ==
  IF dragStartClientRef.set
  THEN LET dx == clientX - dragStartClientRef.x
           dy == clientY - dragStartClientRef.y
       IN IF ~didDragRef /\ hypot(dx, dy) >= DRAG_THRESHOLD_PX THEN TRUE ELSE didDragRef
  ELSE didDragRef

\* variant: every pointer is taken for the active one
isOtherPointer_never(pid) == FALSE

\* e.pointerId !== activePointerIdRef.current
isOtherPointer(pid) == pid # activePointerIdRef

pointerMoveDrag(pid, clientX, clientY) ==
  IF activePointerIdRef = NullPointer \/ isOtherPointer(pid) \/ draggingNodeId = NullId
  THEN UNCHANGED chartVars
  ELSE /\ didDragRef' = crossedThreshold(clientX, clientY)
       /\ IF ~didDragRef'
          THEN /\ dragPos' = dragPos
               /\ ev' = [NoEvent EXCEPT !.type = "move", !.pid = pid, !.node = draggingNodeId,
                                        !.outcome = "below", !.x = clientX, !.y = clientY]
          ELSE /\ dragPos' = clampPointToOuterCircle(clientToSvgPoint(clientX, clientY))
               /\ ev' = [NoEvent EXCEPT !.type = "move", !.pid = pid, !.node = draggingNodeId,
                                        !.outcome = "follow", !.x = clientX, !.y = clientY]
       /\ UNCHANGED <<axes, nodes, size, selectedNodeId, draggingNodeId,
                      activePointerIdRef, dragStartClientRef, tap, blobLayer, autosave>>

\* a move of pointer pid to a point of the pointer grid
PointerMove(pid, off) ==
  LET client == svgToClient(cx2 + off[1], cy2 + off[2])
  IN pointerMoveDrag(pid, client.x, client.y) /\ UNCHANGED seen

\* a move of pointer pid that stays close to the press position, before the
\* threshold has been crossed
PointerMoveSmall(pid, d) ==
  /\ dragStartClientRef.set
  /\ ~didDragRef
  /\ pointerMoveDrag(pid, dragStartClientRef.x + d[1], dragStartClientRef.y + d[2])
  /\ UNCHANGED seen

\* variant: the new sequence is taken over the whole target axis
dropNodes_axisMax(prev, nodeId, nextAxisId, nextRingId) ==
  IF ~hasNode(prev, nodeId) THEN prev
  ELSE LET moving == nodeById(prev, nodeId)
           axisChanged == moving.axisId # nextAxisId
           ringChanged == moving.ringId # nextRingId
           target == SelectSeq(prev, LAMBDA x: x.axisId = nextAxisId)
           maxSeq == IF target = <<>> THEN 0
                     ELSE Max2(0, MaxOfSeq([i \in 1..Len(target) |-> target[i].sequence]))
           nextSeq == IF axisChanged \/ ringChanged THEN maxSeq + 1 ELSE moving.sequence
       IN [i \in 1..Len(prev) |->
             IF prev[i].id = nodeId
             THEN [prev[i] EXCEPT !.axisId = nextAxisId, !.ringId = nextRingId,
                                  !.sequence = nextSeq]
             ELSE prev[i]]

\* variant: a drop that keeps axis and ring stores a radial override
dropNodes_override(prev, nodeId, nextAxisId, nextRingId) ==
  IF ~hasNode(prev, nodeId) THEN prev
  ELSE LET moving == nodeById(prev, nodeId)
           axisChanged == moving.axisId # nextAxisId
           ringChanged == moving.ringId # nextRingId
           target == SelectSeq(prev, LAMBDA x: x.axisId = nextAxisId /\ x.ringId = nextRingId)
           maxSeq == IF target = <<>> THEN 0
                     ELSE Max2(0, MaxOfSeq([i \in 1..Len(target) |-> target[i].sequence]))
           nextSeq == IF axisChanged \/ ringChanged THEN maxSeq + 1 ELSE moving.sequence
       IN [i \in 1..Len(prev) |->
             IF prev[i].id = nodeId
             THEN IF axisChanged \/ ringChanged
                  THEN [prev[i] EXCEPT !.axisId = nextAxisId, !.ringId = nextRingId,
                                       !.sequence = nextSeq]
                  ELSE [id |-> prev[i].id, label |-> prev[i].label, axisId |-> nextAxisId,
                        ringId |-> nextRingId, sequence |-> nextSeq, rOverride |-> 1]
             ELSE prev[i]]

\* the setNodes updater of pointerEndDrag
dropNodes(prev, nodeId, nextAxisId, nextRingId) ==
  IF ~hasNode(prev, nodeId) THEN prev
  ELSE LET moving == nodeById(prev, nodeId)
           axisChanged == moving.axisId # nextAxisId
           ringChanged == moving.ringId # nextRingId
           target == SelectSeq(prev, LAMBDA x: x.axisId = nextAxisId /\ x.ringId = nextRingId)
           maxSeq == IF target = <<>> THEN 0
                     ELSE Max2(0, MaxOfSeq([i \in 1..Len(target) |-> target[i].sequence]))
           nextSeq == IF axisChanged \/ ringChanged THEN maxSeq + 1 ELSE moving.sequence
       IN [i \in 1..Len(prev) |->
             IF prev[i].id = nodeId
             THEN [prev[i] EXCEPT !.axisId = nextAxisId, !.ringId = nextRingId,
                                  !.sequence = nextSeq]
             ELSE prev[i]]

\* variant: every release is treated as the end of a drag
dragged_always == TRUE

\* const dragged = didDragRef.current
dragged == didDragRef

\* variant: the drag position survives the release
resetDragPos_keep == dragPos

\* setDragPos(null) of pointerEndDrag
resetDragPos == NullPos

\* onPointerUp and onPointerCancel (kind) of the <svg>
pointerEndDrag(kind, pid) ==
  IF activePointerIdRef = NullPointer \/ isOtherPointer(pid)
  THEN UNCHANGED chartVars
  ELSE LET nodeId == draggingNodeId
           finalPos == dragPos
           e == [NoEvent EXCEPT !.type = kind, !.pid = pid, !.node = nodeId]
       IN /\ activePointerIdRef' = NullPointer
          /\ dragStartClientRef' = NullPos
          /\ draggingNodeId' = NullId
          /\ dragPos' = resetDragPos
          /\ UNCHANGED <<axes, size, tap>>
          /\ IF nodeId = NullId
             THEN /\ UNCHANGED <<nodes, selectedNodeId, didDragRef, blobLayer, autosave>>
                  /\ ev' = [e EXCEPT !.outcome = "nonode"]
             ELSE IF ~dragged
             THEN /\ selectedNodeId' = IF hasNode(nodes, nodeId) THEN nodeId ELSE selectedNodeId
                  /\ didDragRef' = FALSE
                  /\ UNCHANGED <<nodes, blobLayer, autosave>>
                  /\ ev' = [e EXCEPT !.outcome = "click"]
             ELSE IF ~finalPos.set
             THEN /\ didDragRef' = FALSE
                  /\ UNCHANGED <<nodes, selectedNodeId, blobLayer, autosave>>
                  /\ ev' = [e EXCEPT !.outcome = "nopos"]
             ELSE LET dx == finalPos.x - cx2
                      dy == finalPos.y - cy2
                      dropR == Min2(hypot(dx, dy), DRAG_MAX_R)
                      nextAxisId == snapAxisIdFromPoint(finalPos.x, finalPos.y)
                      nextRingId == snapRingIdFromRadius(nextAxisId, dropR)
                  IN /\ nodes' = dropNodes(nodes, nodeId, nextAxisId, nextRingId)
                     /\ \A i \in 1..Len(nodes') :
                          nodes'[i].id = nodeId => nodes'[i].sequence <= MaxSeq
                     /\ selectedNodeId' = nodeId
                     /\ didDragRef' = FALSE
                     /\ ev' = [e EXCEPT !.outcome = "drop", !.dropR = dropR,
                                        !.axisId = nextAxisId, !.ringId = nextRingId]
                     /\ useLayoutEffect
                     /\ autosaveEffect

PointerUp(pid) == pointerEndDrag("up", pid) /\ UNCHANGED seen
\* variant: a cancel abandons the interaction
PointerCancel_abort(pid) ==
  /\ IF activePointerIdRef = NullPointer \/ isOtherPointer(pid)
     THEN UNCHANGED chartVars
     ELSE /\ activePointerIdRef' = NullPointer
          /\ dragStartClientRef' = NullPos
          /\ draggingNodeId' = NullId
          /\ dragPos' = NullPos
          /\ didDragRef' = FALSE
          /\ ev' = [NoEvent EXCEPT !.type = "cancel", !.pid = pid,
                                   !.node = draggingNodeId, !.outcome = "click"]
          /\ UNCHANGED <<axes, nodes, size, tap, selectedNodeId, blobLayer, autosave>>
  /\ UNCHANGED seen
PointerCancel(pid) == pointerEndDrag("cancel", pid) /\ UNCHANGED seen

\* time passes between pointer events
Tick ==
  /\ tap.node # NullId
  /\ tap.age < MaxTicks
  /\ tap' = [tap EXCEPT !.age = tap.age + 1]
  /\ UNCHANGED <<axes, nodes, size, selectedNodeId, dragRecord, ev, blobLayer, autosave, seen>>

Next ==
  \/ \E i \in 1..Len(nodes), pid \in PointerIds : PointerDown(nodes[i], pid)
  \/ \E pid \in PointerIds, off \in PointerOffsets : PointerMove(pid, off)
  \/ \E pid \in PointerIds, d \in SmallMoves : PointerMoveSmall(pid, d)
  \/ \E pid \in PointerIds : PointerUp(pid)
  \/ \E pid \in PointerIds : PointerCancel(pid)

Spec == Init /\ [][Next]_vars

\* charts with 1..MaxAxes axes, followed up to their first drop
MaxAxes == 6
InitAxes == \E n \in 1..MaxAxes : InitWith(n)
NextAxes == ev.outcome # "drop" /\ Next
SpecAxes == InitAxes /\ [][NextAxes]_vars

\* the same interactions with the time between pointer events
NextClock == ev.outcome # "drop" /\ (Next \/ Tick)
SpecClock == Init /\ [][NextClock]_vars

----------------------------------------------------------------------------
\* Editing operations of the side panel

\* most nodes the collection grows to in the model
MaxNodes == 3

\* the label "New node", which sorts before the labels of the initial nodes
NewNodeLabel == 0

\* uid(): an id no node has
uid(ns) ==
  NodeIdPool[CHOOSE i \in 1..Len(NodeIdPool) :
               /\ ~hasNode(ns, NodeIdPool[i])
               /\ \A j \in 1..(i - 1) : hasNode(ns, NodeIdPool[j])]

\* axisNodesOrdered.reduce((m, n) => Math.max(m, n.sequence), 0)
RECURSIVE maxSequence(_)
maxSequence(list) ==
  IF list = <<>> THEN 0 ELSE Max2(maxSequence(SubSeq(list, 1, Len(list) - 1)), list[Len(list)].sequence)

\* onClick of "+ Add node" in the row of an axis
AddNode(axisId) ==
  LET axisNodesOrdered == axisNodesOf(nodes, axisId)
      maxSeq == maxSequence(axisNodesOrdered)
      newId == uid(nodes)
  IN /\ axisId \in SeqToSet(axes)
     /\ Len(nodes) < MaxNodes
     /\ nodes' = Append(nodes, NodeItem(newId, NewNodeLabel, axisId, "uncommitted", maxSeq + 1))
     /\ selectedNodeId' = newId
     /\ ev' = [NoEvent EXCEPT !.type = "add", !.node = newId, !.axisId = axisId,
                              !.outcome = "added"]
     /\ UNCHANGED <<axes, size, dragRecord, tap, seen>>
     /\ useLayoutEffect
     /\ autosaveEffect

\* variant: the sequences of the axis are left as they were, only the two
\* nodes exchange theirs
renumber_swapOnly(axisNodes, swapped, n) ==
  IF findIndex(swapped, n.id) < 0 THEN n.sequence
  ELSE axisNodes[findIndex(swapped, n.id) + 1].sequence

\* newSeqById[n.id] ?? n.sequence, from the swapped order
renumber(axisNodes, swapped, n) ==
  IF findIndex(swapped, n.id) < 0 THEN n.sequence ELSE findIndex(swapped, n.id) + 1

\* variant: a move that cannot be made still renumbers the axis
moveNodeInAxis_renumber(prev, axisId, nodeId, direction) ==
  LET axisNodes == axisNodesOf(prev, axisId)
  IN [i \in 1..Len(prev) |->
        IF prev[i].axisId = axisId
        THEN [prev[i] EXCEPT !.sequence = renumber(axisNodes, axisNodes, prev[i])]
        ELSE prev[i]]

\* the setNodes updater of moveNodeInAxis (direction is -1 or 1)
moveNodeInAxis(prev, axisId, nodeId, direction) ==
  LET axisNodes == axisNodesOf(prev, axisId)
      idx == findIndex(axisNodes, nodeId)
      nextIdx == idx + direction
  IN IF idx = 0 - 1 THEN prev
     ELSE IF nextIdx < 0 \/ nextIdx >= Len(axisNodes) THEN prev
     ELSE LET swapped == [i \in 1..Len(axisNodes) |->
                            IF i = idx + 1 THEN axisNodes[nextIdx + 1]
                            ELSE IF i = nextIdx + 1 THEN axisNodes[idx + 1]
                            ELSE axisNodes[i]]
          IN [i \in 1..Len(prev) |->
                IF prev[i].axisId = axisId
                THEN [prev[i] EXCEPT !.sequence = renumber(axisNodes, swapped, prev[i])]
                ELSE prev[i]]

\* onClick of the up / down button in the row of node n
MoveNodeInAxis(n, direction) ==
  LET axisNodes == axisNodesOf(nodes, n.axisId)
      nextIdx == findIndex(axisNodes, n.id) + direction
  IN /\ rendered(n)
     /\ n.ringId \in SeqToSet(rings)
     /\ IF nextIdx < 0 \/ nextIdx >= Len(axisNodes)
        THEN UNCHANGED vars
        ELSE /\ nodes' = moveNodeInAxis(nodes, n.axisId, n.id, direction)
             /\ ev' = [NoEvent EXCEPT !.type = "reorder", !.node = n.id, !.axisId = n.axisId,
                                      !.outcome = IF direction < 0 THEN "up" ELSE "down"]
             /\ UNCHANGED <<axes, size, selectedNodeId, dragRecord, tap, seen>>
             /\ useLayoutEffect
             /\ autosaveEffect

\* variant: the nodes of the deleted axis stay in the collection
deleteAxisNodes_keep(ns, axisId) == ns

\* const nextNodes = nodes.filter((n) => n.axisId !== axisId)
deleteAxisNodes(ns, axisId) == SelectSeq(ns, LAMBDA n: n.axisId # axisId)

\* deleteAxis, the deletion confirmed in the dialog
DeleteAxis(axisId) ==
  LET nextNodes == deleteAxisNodes(nodes, axisId)
  IN /\ axisId \in SeqToSet(axes)
     /\ axes' = SelectSeq(axes, LAMBDA a: a # axisId)
     /\ nodes' = nextNodes
     /\ selectedNodeId' = IF selectedNodeId # NullId /\ hasNode(nextNodes, selectedNodeId)
                          THEN selectedNodeId ELSE NullId
     /\ ev' = [NoEvent EXCEPT !.type = "deleteAxis", !.axisId = axisId, !.outcome = "deleted"]
     /\ UNCHANGED <<size, dragRecord, tap, seen>>
     /\ useLayoutEffect
     /\ autosaveEffect

\* onClick of "Delete" in the row of node n
DeleteNode(n) ==
  /\ rendered(n)
  /\ n.ringId \in SeqToSet(rings)
  /\ nodes' = SelectSeq(nodes, LAMBDA x: x.id # n.id)
  /\ ev' = [NoEvent EXCEPT !.type = "deleteNode", !.node = n.id, !.outcome = "deleted"]
  /\ UNCHANGED <<axes, size, selectedNodeId, dragRecord, tap, seen>>
  /\ useLayoutEffect
  /\ autosaveEffect

\* the setAxes updater of moveAxis (direction is -1 for "up", 1 for "down")
moveAxis(prev, axisId, direction) ==
  IF axisId \notin SeqToSet(prev) THEN prev
  ELSE LET fromIndex == CHOOSE i \in 1..Len(prev) : prev[i] = axisId
           toIndex == fromIndex + direction
       IN IF toIndex < 1 \/ toIndex > Len(prev) THEN prev
          ELSE [i \in 1..Len(prev) |->
                  IF i = fromIndex THEN prev[toIndex]
                  ELSE IF i = toIndex THEN prev[fromIndex]
                  ELSE prev[i]]

\* onClick of the up / down button in the row of an axis; the button is
\* disabled on the first / last axis
MoveAxis(axisId, direction) ==
  /\ axisId \in SeqToSet(axes)
  /\ direction < 0 => axes[1] # axisId
  /\ direction > 0 => axes[Len(axes)] # axisId
  /\ axes' = moveAxis(axes, axisId, direction)
  /\ ev' = [NoEvent EXCEPT !.type = "moveAxis", !.axisId = axisId,
                           !.outcome = IF direction < 0 THEN "up" ELSE "down"]
  /\ UNCHANGED <<nodes, size, selectedNodeId, dragRecord, tap, seen>>
  /\ useLayoutEffect
  /\ autosaveEffect

\* ringRank[ringId] ?? 0: the zero-based position in the ring list
ringRank(ringId) ==
  IF \E i \in 1..Len(rings) : rings[i] = ringId
  THEN (CHOOSE i \in 1..Len(rings) : rings[i] = ringId) - 1
  ELSE 0

\* axisWarnings[axisId]: the zero-based positions i of the ordered nodes of the
\* axis for which a warning is pushed
axisWarnings(axisId) ==
  LET axisNodes == axisNodesOf(nodes, axisId)
  IN {i \in 1..(Len(axisNodes) - 1) :
        LET prev == axisNodes[i]
            curr == axisNodes[i + 1]
        IN /\ ~(prev.ringId = "uncommitted" \/ curr.ringId = "uncommitted")
           /\ ringRank(curr.ringId) < ringRank(prev.ringId)}

\* points of the pointer grid on the two axes of the edited chart
EditOffsets == { <<0, 0 - 345 * PX>>, <<0, 150 * PX>> }

\* a chart as loaded from a snapshot: two axes, sequences with a gap, the
\* same label on both axes
EditNodes ==
  << NodeItem("n1", 1, "a1", "now", 2),
     NodeItem("n2", 1, "a2", "next", 1) >>

InitEdit ==
  /\ axes = SubSeq(AxisIds, 1, 2)
  /\ nodes = EditNodes
  /\ size = [width |-> 1000 * PX, height |-> 912 * PX]
  /\ selectedNodeId = NullId
  /\ draggingNodeId = NullId
  /\ dragPos = NullPos
  /\ activePointerIdRef = NullPointer
  /\ dragStartClientRef = NullPos
  /\ didDragRef = FALSE
  /\ tap = [node |-> NullId, age |-> 0]
  /\ ev = NoEvent
  /\ showNowBlob = FALSE
  /\ showNextBlob = FALSE
  /\ showLaterBlob = FALSE
  /\ animRef = NullAnim
  /\ currentRadiiRef = <<>>
  /\ rafQueue = {}
  /\ autosave = Loaded
  /\ seen = NoCall

\* editing and dragging interleaved, followed up to the first drop
NextEdit ==
  /\ ev.outcome # "drop"
  /\ \/ \E i \in 1..Len(axes) : AddNode(axes[i])
     \/ \E i \in 1..Len(nodes), direction \in {0 - 1, 1} : MoveNodeInAxis(nodes[i], direction)
     \/ \E i \in 1..Len(axes) : DeleteAxis(axes[i])
     \/ \E i \in 1..Len(nodes) : PointerDown(nodes[i], 1)
     \/ \E off \in EditOffsets : PointerMove(1, off)
     \/ PointerUp(1)
SpecEdit == InitEdit /\ [][NextEdit]_vars

----------------------------------------------------------------------------
\* Layout of a chart while its rings are edited and its container resized

\* container sizes: outer radius 400px, 40px and 5px
ViewportSizes ==
  { [width |-> 1000 * PX, height |-> 912 * PX],
    [width |-> 300 * PX, height |-> 192 * PX],
    [width |-> 122 * PX, height |-> 122 * PX] }

\* the ResizeObserver callback
Resize(sz) ==
  /\ sz # size
  /\ size' = sz
  /\ ev' = [NoEvent EXCEPT !.type = "resize", !.outcome = "resized"]
  /\ UNCHANGED <<axes, nodes, selectedNodeId, dragRecord, tap, blobLayer, autosave, seen>>

\* onChange of the ring <select> in the row of node n
SetNodeRing(n, ringId) ==
  /\ rendered(n)
  /\ n.ringId \in SeqToSet(rings)
  /\ ringId \in SeqToSet(rings)
  /\ ringId # n.ringId
  /\ nodes' = [i \in 1..Len(nodes) |->
                 IF nodes[i].id = n.id THEN [nodes[i] EXCEPT !.ringId = ringId] ELSE nodes[i]]
  /\ ev' = [NoEvent EXCEPT !.type = "ring", !.node = n.id, !.ringId = ringId,
                           !.outcome = "changed"]
  /\ UNCHANGED <<axes, size, selectedNodeId, dragRecord, tap, seen>>
  /\ useLayoutEffect
  /\ autosaveEffect

\* a snapshot whose second node names a ring that is not in the ring list
LayoutNodes ==
  << NodeItem("n1", 1, "a1", "now", 1),
     NodeItem("n2", 2, "a1", "someday", 2) >>

\* loadSnapshotIntoState (the ring list of the snapshot is the default one)
LoadSnapshot(snap) ==
  /\ axes' = snap.axes
  /\ nodes' = snap.nodes
  /\ selectedNodeId' = IF selectedNodeId # NullId /\ hasNode(snap.nodes, selectedNodeId)
                       THEN selectedNodeId ELSE NullId
  /\ ev' = [NoEvent EXCEPT !.type = "load", !.outcome = "loaded"]
  /\ UNCHANGED <<size, dragRecord, tap, seen>>
  /\ useLayoutEffect
  /\ autosaveEffect

\* a snapshot with two nodes in the same unknown ring
StrayNodes ==
  << NodeItem("n1", 1, "a1", "someday", 1),
     NodeItem("n2", 2, "a1", "someday", 2) >>

Snapshots ==
  { [axes |-> SubSeq(AxisIds, 1, 2), nodes |-> LayoutNodes],
    [axes |-> SubSeq(AxisIds, 1, 2), nodes |-> StrayNodes] }

InitLayout ==
  /\ axes = SubSeq(AxisIds, 1, 2)
  /\ nodes = InitialNodes
  /\ size = [width |-> 1000 * PX, height |-> 912 * PX]
  /\ selectedNodeId = NullId
  /\ draggingNodeId = NullId
  /\ dragPos = NullPos
  /\ activePointerIdRef = NullPointer
  /\ dragStartClientRef = NullPos
  /\ didDragRef = FALSE
  /\ tap = [node |-> NullId, age |-> 0]
  /\ ev = NoEvent
  /\ showNowBlob = FALSE
  /\ showNextBlob = FALSE
  /\ showLaterBlob = FALSE
  /\ animRef = NullAnim
  /\ currentRadiiRef = <<>>
  /\ rafQueue = {}
  /\ autosave = Loaded
  /\ seen = NoCall

NextLayout ==
  \/ \E snap \in Snapshots : LoadSnapshot(snap)
  \/ \E sz \in ViewportSizes : Resize(sz)
  \/ AddNode(axes[1])
  \/ \E i \in 1..Len(nodes), j \in 1..Len(rings) : SetNodeRing(nodes[i], rings[j])
SpecLayout == InitLayout /\ [][NextLayout]_vars

----------------------------------------------------------------------------
\* The polar frame while axes are added and deleted

\* axis-${uid()}: an id no axis has
freshAxisId ==
  AxisIds[CHOOSE i \in 1..Len(AxisIds) :
            /\ AxisIds[i] \notin SeqToSet(axes)
            /\ \A j \in 1..(i - 1) : AxisIds[j] \in SeqToSet(axes)]

\* addAxis, while an id is left
AddAxis ==
  /\ \E i \in 1..Len(AxisIds) : AxisIds[i] \notin SeqToSet(axes)
  /\ axes' = Append(axes, freshAxisId)
  /\ ev' = [NoEvent EXCEPT !.type = "addAxis", !.axisId = freshAxisId, !.outcome = "added"]
  /\ UNCHANGED <<nodes, size, selectedNodeId, dragRecord, tap, seen>>
  /\ useLayoutEffect
  /\ autosaveEffect

\* axes are appended and the last one deleted
InitFrame == InitWith(3)
NextFrame ==
  \/ AddAxis
  \/ Len(axes) > 0 /\ DeleteAxis(axes[Len(axes)])
  \/ \E sz \in ViewportSizes : Resize(sz)
SpecFrame == InitFrame /\ [][NextFrame]_vars

----------------------------------------------------------------------------
\* The contour layer while rings are edited and axes deleted

\* the first node of the collection is moved to a ring further out
MoveOut ==
  \E j \in 1..Len(rings) :
    /\ Len(nodes) >= 1
    /\ ringRank2(rings[j]) > ringRank2(nodes[1].ringId)
    /\ SetNodeRing(nodes[1], rings[j])

\* the second node of the collection is moved to a ring further in
MoveIn ==
  \E j \in 1..Len(rings) :
    /\ Len(nodes) >= 2
    /\ ringRank2(rings[j]) < ringRank2(nodes[2].ringId)
    /\ SetNodeRing(nodes[2], rings[j])

\* the contours are shown and hidden, frames fire, time passes, and between
\* frames nodes change ring and the last axis is deleted
NextBlob ==
  \/ ShowBlobs
  \/ HideBlobs
  \/ AnimationFrame
  \/ Elapse
  \/ MoveOut
  \/ MoveIn
  \/ Len(axes) > 0 /\ DeleteAxis(axes[Len(axes)])
SpecBlob == InitWith(2) /\ [][NextBlob]_vars

\* ring changes of a shown layer with the scheduling of the browser: a
\* requested frame fires, and the time of an animation in flight passes
NextRetarget ==
  \/ ShowBlobs
  \/ AnimationFrame
  \/ Elapse
  \/ MoveOut
  \/ MoveIn
SpecRetarget ==
  InitWith(1) /\ [][NextRetarget]_vars /\ WF_vars(AnimationFrame) /\ WF_vars(Elapse)

\* the container shrinks
Shrink == \E sz \in ViewportSizes : sz.width < size.width /\ Resize(sz)

\* the contour layer while the container shrinks, with the scheduling of the
\* browser
NextResize ==
  \/ ShowBlobs
  \/ AnimationFrame
  \/ Elapse
  \/ Shrink
  \/ MoveOut
SpecResize ==
  InitWith(2) /\ [][NextResize]_vars /\ WF_vars(AnimationFrame) /\ WF_vars(Elapse)

\* nodes on three axes, one in each ring
PathNodes ==
  << NodeItem("n1", 1, "a1", "now", 1),
     NodeItem("n2", 2, "a2", "later", 1),
     NodeItem("n3", 3, "a3", "next", 1) >>

\* charts with 1..MaxAxes axes whose contours are drawn while they animate
InitPath ==
  \E n \in 1..MaxAxes :
    /\ axes = SubSeq(AxisIds, 1, n)
    /\ nodes = PathNodes
    /\ size = [width |-> 1000 * PX, height |-> 912 * PX]
    /\ selectedNodeId = NullId
    /\ draggingNodeId = NullId
    /\ dragPos = NullPos
    /\ activePointerIdRef = NullPointer
    /\ dragStartClientRef = NullPos
    /\ didDragRef = FALSE
    /\ tap = [node |-> NullId, age |-> 0]
    /\ ev = NoEvent
    /\ showNowBlob = FALSE
    /\ showNextBlob = FALSE
    /\ showLaterBlob = FALSE
    /\ animRef = NullAnim
    /\ currentRadiiRef = <<>>
    /\ rafQueue = {}
    /\ autosave = Loaded
    /\ seen = NoCall
NextPath ==
  \/ ShowBlobs
  \/ AnimationFrame
  \/ Elapse
  \/ MoveOut
SpecPath == InitPath /\ [][NextPath]_vars

----------------------------------------------------------------------------
\* Pointer events of two pointers, each recorded as it is delivered

\* onPointerMove of the <svg>, recorded
DeliverMove(pid, off) ==
  LET client == svgToClient(cx2 + off[1], cy2 + off[2])
  IN /\ pointerMoveDrag(pid, client.x, client.y)
     /\ seen' = Recorded([NoCall EXCEPT !.type = "move", !.pid = pid,
                                        !.was = activePointerIdRef,
                                        !.held = draggingNodeId])

\* onPointerUp and onPointerCancel of the <svg>, recorded
DeliverEnd(kind, pid) ==
  /\ pointerEndDrag(kind, pid)
  /\ seen' = Recorded([NoCall EXCEPT !.type = kind, !.pid = pid,
                                     !.was = activePointerIdRef,
                                     !.held = draggingNodeId])

\* onPointerDown of a node's <g>, recorded
DeliverDown(n, pid) ==
  /\ onPointerDown(n, pid)
  /\ seen' = Recorded([NoCall EXCEPT !.type = "down", !.pid = pid, !.node = n.id,
                                     !.was = activePointerIdRef,
                                     !.held = draggingNodeId])

\* presses and delivered events, followed up to the first drop
NextPointers ==
  /\ ev.outcome # "drop"
  /\ \/ \E i \in 1..Len(nodes), pid \in PointerIds : DeliverDown(nodes[i], pid)
     \/ \E pid \in PointerIds, off \in EditOffsets : DeliverMove(pid, off)
     \/ \E pid \in PointerIds, kind \in {"up", "cancel"} : DeliverEnd(kind, pid)
SpecPointers == InitEdit /\ [][NextPointers]_vars

\* a snapshot without the second node of the edited chart
SmallerNodes == << NodeItem("n1", 1, "a1", "now", 2) >>

\* "+ Add node" while the sequences of the axis are below the bound
AddFew(axisId) ==
  /\ maxSequence(axisNodesOf(nodes, axisId)) < MaxSeq
  /\ AddNode(axisId)

\* additions and deletions in the side panel, presses and drags on the chart,
\* snapshot loads
NextSelect ==
  \/ \E i \in 1..Len(nodes) : PointerDown(nodes[i], 1)
  \/ PointerMove(1, <<0, 150 * PX>>)
  \/ PointerUp(1)
  \/ AddFew(axes[1])
  \/ \E i \in 1..Len(nodes) : DeleteNode(nodes[i])
  \/ Len(axes) > 1 /\ DeleteAxis(axes[Len(axes)])
  \/ LoadSnapshot([axes |-> SubSeq(AxisIds, 1, 2), nodes |-> SmallerNodes])
SpecSelect == InitEdit /\ [][NextSelect]_vars

\* the operations of the editor on axes and nodes, with at most two axes and
\* two nodes (a node is added to the first axis, the first node is moved to
\* rings further out, the last node is deleted), and among them one press on
\* the chart, followed up to its drop
NextRefs ==
  /\ ev.outcome # "drop"
  /\ \/ Len(axes) <= 1 /\ AddAxis
     \/ \E i \in 1..Len(axes), direction \in {0 - 1, 1} : MoveAxis(axes[i], direction)
     \/ \E i \in 1..Len(axes) : DeleteAxis(axes[i])
     \/ Len(axes) >= 1 /\ Len(nodes) <= 1 /\ AddFew(axes[1])
     \/ MoveOut
     \/ \E i \in 1..Len(nodes), direction \in {0 - 1, 1} : MoveNodeInAxis(nodes[i], direction)
     \/ Len(nodes) >= 1 /\ DeleteNode(nodes[Len(nodes)])
     \/ \E i \in 1..Len(nodes) : tap.node = NullId /\ PointerDown(nodes[i], 1)
     \/ PointerMove(1, <<0, 150 * PX>>)
     \/ PointerUp(1)
SpecRefs == InitEdit /\ [][NextRefs]_vars

\* a chart with three nodes on its first axis, all in now
WarnNodes ==
  << NodeItem("n1", 1, "a1", "now", 1),
     NodeItem("n2", 2, "a1", "now", 2),
     NodeItem("n3", 3, "a1", "now", 3) >>

InitWarn ==
  /\ axes = SubSeq(AxisIds, 1, 2)
  /\ nodes = WarnNodes
  /\ size = [width |-> 1000 * PX, height |-> 912 * PX]
  /\ selectedNodeId = NullId
  /\ draggingNodeId = NullId
  /\ dragPos = NullPos
  /\ activePointerIdRef = NullPointer
  /\ dragStartClientRef = NullPos
  /\ didDragRef = FALSE
  /\ tap = [node |-> NullId, age |-> 0]
  /\ ev = NoEvent
  /\ showNowBlob = FALSE
  /\ showNextBlob = FALSE
  /\ showLaterBlob = FALSE
  /\ animRef = NullAnim
  /\ currentRadiiRef = <<>>
  /\ rafQueue = {}
  /\ autosave = Loaded
  /\ seen = NoCall

\* ring changes and reorders in the side panel
NextWarn ==
  \/ \E i \in 1..Len(nodes), j \in 1..Len(rings) : SetNodeRing(nodes[i], rings[j])
  \/ \E i \in 1..Len(nodes), direction \in {0 - 1, 1} : MoveNodeInAxis(nodes[i], direction)
SpecWarn == InitWarn /\ [][NextWarn]_vars

\* onChange of the "Autosave" checkbox, and the render that follows
ToggleAutosave(next) ==
  /\ next # autosave.autoSaveEnabled
  /\ autosave' = LET a == IF next THEN saveCurrentSnapshot(autosave) ELSE autosave
                 IN [a EXCEPT !.autoSaveEnabled = next,
                              !.autosaveTimerRef = next /\ a.hasHydratedRef]
  /\ ev' = [NoEvent EXCEPT !.type = "autosave", !.outcome = IF next THEN "on" ELSE "off"]
  /\ UNCHANGED <<axes, nodes, size, selectedNodeId, dragRecord, tap, blobLayer, seen>>

\* 500 ms pass without a change: a pending timeout calls saveCurrentSnapshot
Quiet ==
  /\ autosave' = IF autosave.autosaveTimerRef
                 THEN [saveCurrentSnapshot(autosave) EXCEPT !.autosaveTimerRef = FALSE]
                 ELSE autosave
  /\ ev' = [NoEvent EXCEPT !.type = "quiet",
                           !.outcome = IF autosave.autosaveTimerRef THEN "saved" ELSE "idle"]
  /\ UNCHANGED <<axes, nodes, size, selectedNodeId, dragRecord, tap, blobLayer, seen>>

\* the autosave checkbox, edits in the side panel (a node is added to the
\* first axis, the first node is moved to rings further out, the last node is
\* deleted) and pauses of 500 ms
NextAutosave ==
  \/ \E next \in BOOLEAN : ToggleAutosave(next)
  \/ Quiet
  \/ AddFew(axes[1])
  \/ MoveOut
  \/ Len(nodes) >= 1 /\ DeleteNode(nodes[Len(nodes)])
SpecAutosave == InitEdit /\ [][NextAutosave]_vars

----------------------------------------------------------------------------
\* Calls of moveNodeInAxis with any axis, node and direction

\* moveNodeInAxis(axisId, nodeId, direction), recorded; an updater that
\* returns prev causes no render
CallMoveNodeInAxis(axisId, nodeId, direction) ==
  /\ nodes' = moveNodeInAxis(nodes, axisId, nodeId, direction)
  /\ seen' = Recorded([NoCall EXCEPT !.type = "reorder", !.axisId = axisId,
                                     !.node = nodeId, !.direction = direction])
  /\ UNCHANGED <<axes, size, selectedNodeId, dragRecord, tap, ev>>
  /\ IF nodes' = nodes THEN UNCHANGED <<blobLayer, autosave>>
     ELSE useLayoutEffect /\ autosaveEffect

NextReorder ==
  \/ \E i \in 1..Len(axes) : AddNode(axes[i])
  \/ \E i \in 1..Len(axes), j \in 1..Len(nodes), direction \in {0 - 1, 1} :
       CallMoveNodeInAxis(axes[i], nodes[j].id, direction)
SpecReorder == InitEdit /\ [][NextReorder]_vars

----------------------------------------------------------------------------
\* The contour toggles of the view bar, clicked while the contours animate

\* the chart as the application shows it first: all three contours shown,
\* BlobLayer mounted and its first frame requested
InitToggles ==
  /\ axes = SubSeq(AxisIds, 1, 2)
  /\ nodes = InitialNodes
  /\ size = [width |-> 1000 * PX, height |-> 912 * PX]
  /\ selectedNodeId = NullId
  /\ draggingNodeId = NullId
  /\ dragPos = NullPos
  /\ activePointerIdRef = NullPointer
  /\ dragStartClientRef = NullPos
  /\ didDragRef = FALSE
  /\ tap = [node |-> NullId, age |-> 0]
  /\ ev = NoEvent
  /\ showNowBlob = TRUE
  /\ showNextBlob = TRUE
  /\ showLaterBlob = TRUE
  /\ animRef = [set |-> TRUE, raf |-> NullRaf, from |-> targetRadii, to |-> targetRadii,
                elapsed |-> 0]
  /\ currentRadiiRef = targetRadii
  /\ rafQueue = {[id |-> 1, live |-> TRUE]}
  /\ autosave = Loaded
  /\ seen = NoCall

NextToggles ==
  \/ ToggleRings
  \/ ToggleNow
  \/ ToggleNext
  \/ ToggleLater
  \/ AnimationFrame
  \/ Elapse
  \/ MoveOut
SpecToggles == InitToggles /\ [][NextToggles]_vars

----------------------------------------------------------------------------
\* Drops at the radius where next and later are equally near

\* points on the first axis at 150, 340 and 345 px from the center, and on
\* the second axis at 150 px (the outer radius is 400 px)
TieOffsets ==
  { <<0, 0 - 150 * PX>>, <<0, 0 - 340 * PX>>, <<0, 0 - 345 * PX>>, <<0, 150 * PX>> }

\* a node alone in later on the first axis
TieNodes ==
  << NodeItem("n1", 1, "a1", "later", 1),
     NodeItem("n2", 2, "a2", "now", 1) >>

InitTie ==
  /\ axes = SubSeq(AxisIds, 1, 2)
  /\ nodes = TieNodes
  /\ size = [width |-> 1000 * PX, height |-> 912 * PX]
  /\ selectedNodeId = NullId
  /\ draggingNodeId = NullId
  /\ dragPos = NullPos
  /\ activePointerIdRef = NullPointer
  /\ dragStartClientRef = NullPos
  /\ didDragRef = FALSE
  /\ tap = [node |-> NullId, age |-> 0]
  /\ ev = NoEvent
  /\ showNowBlob = FALSE
  /\ showNextBlob = FALSE
  /\ showLaterBlob = FALSE
  /\ animRef = NullAnim
  /\ currentRadiiRef = <<>>
  /\ rafQueue = {}
  /\ autosave = Loaded
  /\ seen = NoCall

NextTie ==
  \/ \E i \in 1..Len(nodes) : PointerDown(nodes[i], 1)
  \/ \E off \in TieOffsets : PointerMove(1, off)
  \/ PointerUp(1)
SpecTie == InitTie /\ [][NextTie]_vars

----------------------------------------------------------------------------
\* Exactness of the arithmetic: the position of a followed drag always has an
\* integer distance from the center and one of the grid's directions
DragPosExact ==
  didDragRef /\ dragPos.set =>
    LET dx == dragPos.x - cx2
        dy == dragPos.y - cy2
    IN /\ hypot(dx, dy) * hypot(dx, dy) = dx * dx + dy * dy
       /\ \/ dx = 0 /\ dy = 0
          \/ \E d \in Directions : dx * d[2] = dy * d[1] /\ dx * d[1] + dy * d[2] > 0

----------------------------------------------------------------------------
\* Vocabulary of the properties (stated over a step, unprimed = before)

\* a handler acted on a press, a move, a release/cancel in this step
PressStep == ev'.type = "down" /\ tap'.age = 0
MoveStep == ev'.type = "move" /\ tap' = tap
EndStep == ev'.type \in {"up", "cancel"} /\ ev' # ev /\ tap' = tap

\* the release or cancel that ends a real drag of a node of the collection
DropStep ==
  /\ EndStep
  /\ didDragRef
  /\ draggingNodeId # NullId
  /\ dragPos.set
  /\ \E n \in SeqToSet(nodes) : n.id = draggingNodeId

TheNode(ns, id) == CHOOSE n \in SeqToSet(ns) : n.id = id

\* distance of the final drag position from the drawing center, at most
\* outerRadius - 10
DropRadius == Min2(hypot(dragPos.x - cx2, dragPos.y - cy2), outerR2 - 10 * PX)

\* base radius of a ring: 0.4, 0.7, 1.0 of the outer radius (outer if unknown)
BaseRadius(ringId) ==
  IF ringId = "now" THEN (4 * outerR2) \div 10
  ELSE IF ringId = "next" THEN (7 * outerR2) \div 10
  ELSE outerR2

\* the nodes sharing n's axis and ring, and how many of them come before n
RingMates(ns, n) == {m \in SeqToSet(ns) : m.axisId = n.axisId /\ m.ringId = n.ringId}
RankAmongMates(ns, n) ==
  Cardinality({m \in RingMates(ns, n) :
                 m.sequence < n.sequence \/ (m.sequence = n.sequence /\ m.label < n.label)})

\* raw radius: base radius plus the symmetric spread of +-18px within the ring
\* (no spread in a ring that is not in the ring list)
RawRadius(ns, n) ==
  LET k == Cardinality(RingMates(ns, n))
  IN BaseRadius(n.ringId)
       + (IF k <= 1 \/ n.ringId \notin SeqToSet(rings) THEN 0
          ELSE (2 * RankAmongMates(ns, n) * 18 * PX) \div (k - 1) - 18 * PX)

SetMax(S) == CHOOSE x \in S : \A y \in S : y <= x

\* frontier of an axis over the rings of R, 0 when it has no node there
Frontier(ns, axisId, R) ==
  LET M == {n \in SeqToSet(ns) : n.axisId = axisId /\ n.ringId \in R}
  IN IF M = {} THEN 0 ELSE SetMax({RawRadius(ns, n) : n \in M})

AllRingIds == {n.ringId : n \in SeqToSet(nodes)} \cup SeqToSet(rings)

IsNearestRing(ringId, r) ==
  /\ ringId \in {"now", "next", "later"}
  /\ \A o \in {"now", "next", "later"} : Abs(r - BaseRadius(ringId)) <= Abs(r - BaseRadius(o))

\* the ring a drop resolves to, given the frontier of the target axis
RingLaw(ringId, r, frontier) ==
  LET threshold == (frontier + outerR2) \div 2
  IN /\ (ringId = "uncommitted") <=> (r >= threshold)
     /\ ringId # "uncommitted" => IsNearestRing(ringId, r)

SpecAxisAngle(i) ==
  (IF Len(axes) = 4 THEN 45 * Deg ELSE IF Len(axes) = 8 THEN (45 * Deg) \div 2 ELSE 0)
    + (0 - 90 * Deg) + ((i - 1) * 360 * Deg) \div Len(axes)
CircularDistance(a, b) ==
  LET d == (a - b) % (360 * Deg) IN Min2(d, 360 * Deg - d)
DropAngle == atan2(dragPos.y - cy2, dragPos.x - cx2)

C2_Theorem ==
  [][DropStep /\ Len(axes) > 0 =>
       LET m == TheNode(nodes', draggingNodeId)
       IN /\ m.axisId \in SeqToSet(axes)
          /\ \E i \in 1..Len(axes) :
               /\ axes[i] = m.axisId
               /\ \A j \in 1..Len(axes) :
                    CircularDistance(DropAngle, SpecAxisAngle(j))
                      >= CircularDistance(DropAngle, SpecAxisAngle(i))]_vars

\* a node dropped onto an axis other than the one it was on, the nearest one
\* being found across the 0/360 degree wrap
C2_Witness ==
  /\ ev.outcome = "drop"
  /\ Len(axes) >= 3
  /\ ev.axisId # "a1"
  /\ \E n \in SeqToSet(nodes) : n.id = ev.node /\ n.axisId = ev.axisId

\* C3: a drop that changes axis or ring gives the node (max sequence of the
\* nodes already in the target axis and ring) + 1, or 1 if there are none, so
\* that it sorts after all of them; the node count and every other node are
\* unchanged; a drop that changes neither keeps axisId, ringId and sequence.
C3_Theorem ==
  [][DropStep =>
       LET old == TheNode(nodes, draggingNodeId)
           new == TheNode(nodes', draggingNodeId)
           there == {n \in SeqToSet(nodes) : n.axisId = new.axisId /\ n.ringId = new.ringId}
       IN /\ Len(nodes') = Len(nodes)
          /\ \A i \in 1..Len(nodes) :
               /\ nodes'[i].id = nodes[i].id
               /\ nodes'[i].label = nodes[i].label
               /\ nodes[i].id # draggingNodeId => nodes'[i] = nodes[i]
          /\ IF new.axisId # old.axisId \/ new.ringId # old.ringId
             THEN /\ new.sequence = (IF there = {} THEN 1
                                     ELSE SetMax({n.sequence : n \in there}) + 1)
                  /\ \A n \in there : n.sequence < new.sequence
             ELSE /\ new.sequence = old.sequence
                  /\ new = old]_vars

\* a node appended behind a node that was already in the target axis and ring
C3_Witness ==
  /\ ev.outcome = "drop"
  /\ \E n, m \in SeqToSet(nodes) :
       /\ n.id = ev.node /\ m.id # n.id
       /\ m.axisId = n.axisId /\ m.ringId = n.ringId
       /\ n.sequence = m.sequence + 1
       /\ n.sequence = 2

\* C4 as stated: a drop that keeps axis and ring stores
\* rOverride = dropRadius / outerRadius on the node, a drop that changes axis
\* or ring leaves the node without rOverride.
HasOverride(n) == "rOverride" \in DOMAIN n

EventDistSq == (ev'.x - dragStartClientRef.x) * (ev'.x - dragStartClientRef.x)
                 + (ev'.y - dragStartClientRef.y) * (ev'.y - dragStartClientRef.y)
ThresholdSq == (5 * PX) * (5 * PX)
MoveIgnored ==
  /\ ~didDragRef'
  /\ dragPos' = dragPos
  /\ nodes' = nodes
  /\ \A n \in SeqToSet(nodes) : rendered(n) => nodeDisplayPos(n)' = nodeDisplayPos(n)

C5_Original ==
  [][MoveStep /\ ~didDragRef /\ EventDistSq <= ThresholdSq => MoveIgnored]_vars

\* C5 (amended): the press becomes a drag by the first move at least 5px from
\* the press position; a move nearer than 5px before that is ignored; once
\* the threshold is crossed the interaction stays a drag until the release,
\* cancel or next press.
C5_Theorem ==
  [][/\ MoveStep /\ ~didDragRef /\ EventDistSq < ThresholdSq => MoveIgnored
     /\ MoveStep /\ ~didDragRef /\ EventDistSq >= ThresholdSq =>
          didDragRef' /\ dragPos'.set /\ isDraggingThis(TheNode(nodes, draggingNodeId))'
     /\ ~didDragRef /\ didDragRef' => MoveStep /\ EventDistSq >= ThresholdSq
     /\ didDragRef /\ ~PressStep /\ ~EndStep => didDragRef']_vars

\* a drag whose pointer has come back to within 5px of the press position
C5_Witness ==
  /\ didDragRef
  /\ ev.type = "move"
  /\ dragStartClientRef.set
  /\ (ev.x - dragStartClientRef.x) * (ev.x - dragStartClientRef.x)
       + (ev.y - dragStartClientRef.y) * (ev.y - dragStartClientRef.y) < ThresholdSq

\* C6: a release on which the threshold was never crossed leaves the node
\* collection as it was before the press: neither the press, nor a move before
\* the threshold is crossed, nor the release changes it.
C6_Theorem ==
  [][(PressStep \/ (MoveStep /\ ~didDragRef) \/ (EndStep /\ ~didDragRef)) => nodes' = nodes]_vars

\* a click on a node that does not sit on the base radius of its ring
C6_Witness ==
  /\ ev.outcome = "click"
  /\ \E n \in SeqToSet(nodes) : n.id = ev.node /\ n.ringId = "uncommitted"

\* C7 as stated: a press records the press position and the pointer and
\* selects the node, except that pressing the selected node clears the
\* selection.
PressRecorded ==
  /\ activePointerIdRef' = ev'.pid
  /\ activePointerIdRef' # NullPointer
  /\ dragStartClientRef' = Pos(ev'.x, ev'.y)

C7_Original ==
  [][PressStep =>
       /\ PressRecorded
       /\ selectedNodeId' = (IF selectedNodeId = ev'.node THEN NullId ELSE ev'.node)]_vars

\* C7 (amended): a press records the press position and the pointer and
\* selects the pressed node, also when that node was already selected.
C7_Theorem ==
  [][PressStep => PressRecorded /\ selectedNodeId' = ev'.node]_vars

\* the selected node has been pressed again
C7_Witness ==
  /\ ev.type = "down"
  /\ ev.sincePrev >= 0
  /\ selectedNodeId = ev.node
  /\ activePointerIdRef = ev.pid

\* C8 as stated: a second press on the same node within 320ms of the previous
\* press on it cancels the pending drag.
SecondPress == PressStep /\ tap.node = ev'.node

DiscR == outerR2 - 10 * PX
CenterDistSq(p) == (p.x - cx2) * (p.x - cx2) + (p.y - cy2) * (p.y - cy2)
PointerSvg == Pos(ev'.x - RectLeft, ev'.y - RectTop)

Phase ==
  IF activePointerIdRef = NullPointer THEN "Idle"
  ELSE IF didDragRef THEN "Dragging" ELSE "Pressed"
Neutral ==
  /\ activePointerIdRef = NullPointer
  /\ ~dragStartClientRef.set
  /\ draggingNodeId = NullId
  /\ ~dragPos.set
  /\ ~didDragRef

C10_Theorem ==
  [][/\ EndStep => Neutral' /\ ev'.pid = activePointerIdRef
     /\ Phase' = "Idle" => Neutral'
     /\ Phase = "Idle" /\ ~PressStep => UNCHANGED <<axes, nodes, selectedNodeId, dragRecord, ev>>
     /\ Phase = "Idle" => Phase' \in {"Idle", "Pressed"}
     /\ Phase = "Pressed" /\ Phase' = "Dragging" => MoveStep
     /\ Phase # "Idle" /\ Phase' = "Idle" => EndStep
     /\ Phase' = "Pressed" /\ Phase # "Pressed" => PressStep]_vars

\* back in Idle after the cancel of a drag
C10_Witness ==
  /\ ev.type = "cancel"
  /\ ev.outcome = "drop"
  /\ Neutral

----------------------------------------------------------------------------
\* Claims about editing (SpecEdit)

\* a pointer handler acted in this step
PointerStep == ev'.type \in {"down", "move", "up", "cancel"}

\* C11: with an empty axis list no pointer press, move, release or cancel
\* changes the node collection, and no pointer step ever gives a node an
\* axisId that is not in the axis list (never the empty id).
C11_Theorem ==
  [][PointerStep =>
       /\ Len(axes) = 0 => nodes' = nodes
       /\ Len(nodes') = Len(nodes)
       /\ \A i \in 1..Len(nodes) :
            nodes'[i].axisId # nodes[i].axisId =>
              nodes'[i].axisId \in SeqToSet(axes) /\ nodes'[i].axisId # ""]_vars

\* the release of a real drag arrives after the last axis has been deleted
C11_Witness ==
  /\ ev.outcome = "drop"
  /\ ev.axisId = ""
  /\ Len(axes) = 0
  /\ ~didDragRef

\* the nodes of an axis, and the order by (sequence, label)
OnAxis(ns, axisId) == {n \in SeqToSet(ns) : n.axisId = axisId}
Before(a, b) == a.sequence < b.sequence \/ (a.sequence = b.sequence /\ a.label < b.label)
StrictOrder(ns) ==
  \A i, j \in 1..Len(ns) :
    i # j /\ ns[i].axisId = ns[j].axisId => Before(ns[i], ns[j]) \/ Before(ns[j], ns[i])

\* C12 as stated: if no two distinct nodes of an axis have the same
\* (sequence, label), this is still so after an add-node, a reorder or a
\* drag-drop.
C12_Claim == [][StrictOrder(nodes) => StrictOrder(nodes')]_vars

\* C13: a reorder that moves a node leaves the N nodes of its axis with the
\* sequences 1..N, the moved node and its neighbour in (sequence, label)
\* order exchanged, and every other pair of nodes of the axis in the order
\* it had; no other field and no node of another axis changes.
C13_Theorem ==
  [][ev'.type = "reorder" =>
       LET a == ev'.axisId
           old == OnAxis(nodes, a)
           N == Cardinality({n.id : n \in old})
           m == TheNode(nodes, ev'.node)
           after(n) == TheNode(nodes', n.id).sequence
       IN /\ Len(nodes') = Len(nodes)
          /\ \A i \in 1..Len(nodes) :
               /\ nodes'[i] = [nodes[i] EXCEPT !.sequence = nodes'[i].sequence]
               /\ nodes[i].axisId # a => nodes'[i] = nodes[i]
          /\ {n.sequence : n \in OnAxis(nodes', a)} = 1..N
          /\ \E b \in old :
               /\ b.id # m.id
               /\ IF ev'.outcome = "down"
                  THEN /\ ~Before(b, m)
                       /\ after(b) + 1 = after(m)
                       /\ \A x \in old : ~(Before(m, x) /\ Before(x, b))
                  ELSE /\ ~Before(m, b)
                       /\ after(m) + 1 = after(b)
                       /\ \A x \in old : ~(Before(b, x) /\ Before(x, m))
               /\ \A x, y \in old :
                    x.id # y.id /\ {x.id, y.id} # {m.id, b.id} /\ Before(x, y)
                      => after(x) < after(y)]_vars

\* the middle one of three nodes of an axis has been moved up, the sequences
\* 2, 3, 4 renumbered to 1, 2, 3
C13_Witness ==
  /\ ev.type = "reorder"
  /\ ev.outcome = "up"
  /\ Cardinality(OnAxis(nodes, ev.axisId)) = 3
  /\ \E n \in OnAxis(nodes, ev.axisId) : n.id = ev.node /\ n.sequence = 1
  /\ \E n \in OnAxis(nodes, ev.axisId) : n.id = "n1" /\ n.sequence = 2

----------------------------------------------------------------------------
\* Claims about the layout (SpecLayout)

\* the radius at which the resolver draws the dot of node n
ResolvedRadius(n) == nodeRadius(axisNodesOf(nodes, n.axisId), n)
Drawn == {n \in SeqToSet(nodes) : rendered(n)}

\* C14 as stated: every node's resolved radius lies in [0, outerRadius - 10],
\* for every viewport size and every population of its axis.
C14_Claim ==
  \A n \in Drawn : 0 <= ResolvedRadius(n) /\ ResolvedRadius(n) <= outerR2 - 10 * PX

\* C15 as stated (spread law): on an axis with exactly 3 nodes, all in the
\* same ring now, next or later, the resolved radii are strictly increasing
\* in (sequence, label) order and symmetric around the ring's base radius.
C15_Claim ==
  \A a \in SeqToSet(axes) :
    \A x, y, z \in OnAxis(nodes, a) :
      (/\ OnAxis(nodes, a) = {x, y, z}
       /\ Before(x, y) /\ Before(y, z)
       /\ x.ringId = y.ringId /\ y.ringId = z.ringId
       /\ x.ringId \in {"now", "next", "later"})
      => /\ ResolvedRadius(x) < ResolvedRadius(y)
         /\ ResolvedRadius(y) < ResolvedRadius(z)
         /\ ResolvedRadius(y) = BaseRadius(y.ringId)
         /\ ResolvedRadius(y) - ResolvedRadius(x) = ResolvedRadius(z) - ResolvedRadius(y)

\* C16 as stated: on an axis holding one node in now, one in next and one in
\* uncommitted, the uncommitted node's resolved radius is strictly greater
\* than the next node's, and both are at most outerRadius - 10, for every
\* viewport size.
C16_Claim ==
  \A a \in SeqToSet(axes) :
    \A x, y, z \in OnAxis(nodes, a) :
      (/\ OnAxis(nodes, a) = {x, y, z}
       /\ x.ringId = "now" /\ y.ringId = "next" /\ z.ringId = "uncommitted")
      => /\ ResolvedRadius(z) > ResolvedRadius(y)
         /\ ResolvedRadius(z) <= outerR2 - 10 * PX
         /\ ResolvedRadius(y) <= outerR2 - 10 * PX

\* C17 as stated: on an axis with an uncommitted node, its later and
\* uncommitted nodes together, in (sequence, label) order, sit at
\* frontier + (i+1)*(outer - frontier)/(m+1), the frontier being the largest
\* raw radius among the axis's now/next nodes (0 if none), so their radii are
\* strictly increasing in that order.
BandOccupants(a) == {n \in OnAxis(nodes, a) : n.ringId \in {"later", "uncommitted"}}

SpecRank(ringId) == IF ringId = "now" THEN 0 ELSE IF ringId = "next" THEN 1 ELSE 2
Without(ns, n) == SelectSeq(ns, LAMBDA x: x.id # n.id)

\* C18 as stated: a node whose ringId is not a known ring is drawn at the
\* outer ring's radius (at most outer - 10), and the contour builder gives it
\* the outer ring's radius and rank, so it contributes to the rank-2 contour
\* only: the rank-0 and rank-1 contours of its axis are what they are without
\* it.
C18_Claim ==
  \A n \in Drawn :
    n.ringId \notin SeqToSet(rings) =>
      /\ ResolvedRadius(n) = Min2(outerR2, outerR2 - 10 * PX)
      /\ dotRadiusForNodeOnAxis(axisNodesOf(nodes, n.axisId), n) = outerR2
      /\ \A r \in {0, 1} :
           contourRadius(nodes, n.axisId, r) = contourRadius(Without(nodes, n), n.axisId, r)

\* C19 as stated: for each rank r in {0, 1, 2} and each axis the contour
\* target radius is the largest resolved radius among the axis's nodes that
\* are not uncommitted and whose ring rank is <= r, and 0 when there is none
\* (stated here for the axes all of whose nodes are in a ring of the ring
\* list, where the rank of a ring is not in question).
C19_Claim ==
  \A r \in {0, 1, 2} :
    \A i \in 1..Len(axes) :
      LET E == {n \in OnAxis(nodes, axes[i]) : n.ringId # "uncommitted" /\ SpecRank(n.ringId) <= r}
      IN (\A n \in OnAxis(nodes, axes[i]) : n.ringId \in SeqToSet(rings)) =>
           buildRadiiForTargetRank(r)[i]
             = (IF E = {} THEN 0 ELSE SetMax({ResolvedRadius(n) : n \in E}))

----------------------------------------------------------------------------
\* Claims about the polar frame (SpecFrame)

\* offset + (-90 + i*360/n) degrees, offset 45 for 4 axes, 22.5 for 8, else 0
FrameAngle(i, n) ==
  (IF n = 4 THEN 45 * Deg ELSE IF n = 8 THEN (45 * Deg) \div 2 ELSE 0)
    + (0 - 90 * Deg) + (i * 360 * Deg) \div n
SameDirection(a, b) == (a - b) % (360 * Deg) = 0

----------------------------------------------------------------------------
\* Claims about the contour animator (SpecBlob, SpecRetarget, SpecResize)

\* the effect of BlobLayer ran in this step of a mounted layer
EffectStep == showBlobs /\ showBlobs' /\ ev' # ev /\ ev'.type # "resize"

\* an animation frame fired in this step
FrameStep == showBlobs' = showBlobs /\ ev' = ev /\ rafQueue' # rafQueue

\* the rendered radii are the targets of the present data and size
Settled == showBlobs => currentRadiiRef = targetRadii

\* v is not the radius any dot can have: it lies between resting values
OffRing(v) ==
  /\ v # 0
  /\ \A j \in 1..Len(rings), d \in {0 - spread, 0, spread} : v # ringRadiusById(rings[j]) + d

\* the animation in flight started from radii that were mid-interpolation
StartedMidFlight ==
  /\ showBlobs
  /\ animRef.set
  /\ \E ringIdx \in 1..Len(animRef.from) : \E i \in 1..Len(animRef.from[ringIdx]) :
       OffRing(animRef.from[ringIdx][i])

\* C21: a change during an animation replaces it by one from the rendered
\* radii toward the new targets (the record in flight always aims at the
\* targets of the latest data, nothing is queued), a layer at rest shows the
\* targets of the latest data, and once the changes have ended the rendered
\* radii are eventually and for good the targets of the latest data
C21_Theorem ==
  /\ [](showBlobs /\ animRef.set => animRef.to = targetRadii)
  /\ [](showBlobs /\ ~animRef.set => currentRadiiRef = targetRadii)
  /\ <>[]Settled

\* an animation that was restarted mid-flight has run its time and aims at
\* the targets of the latest data
C21_Witness ==
  /\ StartedMidFlight
  /\ animRef.elapsed = Steps
  /\ animRef.to = targetRadii
  /\ currentRadiiRef # targetRadii

\* C22: when the effect restarts an animation in flight, the radius blended
\* at progress 0 of the new animation equals, for every rank and every axis
\* position, the radius rendered just before the restart, and the restart
\* itself leaves the rendered radii as they are
C22_Theorem ==
  [][EffectStep /\ animRef.set =>
       /\ currentRadiiRef' = currentRadiiRef
       /\ animRef'.set /\ animRef'.elapsed = 0
       /\ LET atStart == blended(animRef', easeInOutCubic(0))
          IN \A ringIdx \in 1..Len(currentRadiiRef) :
               \A i \in 1..Min2(Len(currentRadiiRef[ringIdx]), Len(atStart[ringIdx])) :
                 atStart[ringIdx][i] = currentRadiiRef[ringIdx][i]]_vars

\* an animation has just been restarted from radii that were mid-interpolation
C22_Witness ==
  /\ StartedMidFlight
  /\ animRef.elapsed = 0
  /\ animRef.raf = NullRaf
  /\ animRef.from = currentRadiiRef
  /\ animRef.to # currentRadiiRef

\* C23: the frame that finds the 360 ms elapsed stores exactly the targets
\* as the current arrays of all three ranks, requests no further frame and
\* resets the animation record to null
C23_Theorem ==
  [][FrameStep /\ showBlobs /\ animRef.set /\ animRef.elapsed * FrameMs >= dur =>
       /\ currentRadiiRef' = animRef.to
       /\ Len(currentRadiiRef') = 3
       /\ rafQueue' = {}
       /\ animRef' = NullAnim]_vars

\* an animation toward changed targets has completed
C23_Witness ==
  /\ showBlobs
  /\ ~animRef.set
  /\ rafQueue = {}
  /\ ev.type = "ring"
  /\ currentRadiiRef = targetRadii

\* C24: after a resize of the container the rendered contour radii
\* eventually equal the targets computed for the new size
C24_Claim == (ev.type = "resize") ~> (Settled \/ ev.type # "resize")

\* C25: the browser never holds more than one frame callback of the
\* animator, and none once the layer is unmounted
C25_Claim ==
  /\ Cardinality(rafQueue) <= 1
  /\ ~showBlobs => rafQueue = {}

\* C30: in every rendered frame the contours are nested on every axis
\* position: the rank-0 radius is at most the rank-1 radius, which is at
\* most the rank-2 radius
C30_Theorem ==
  showBlobs =>
    /\ Len(currentRadiiRef) = 3
    /\ Len(currentRadiiRef[1]) = Len(currentRadiiRef[2])
    /\ Len(currentRadiiRef[2]) = Len(currentRadiiRef[3])
    /\ \A i \in 1..Len(currentRadiiRef[1]) :
         /\ currentRadiiRef[1][i] <= currentRadiiRef[2][i]
         /\ currentRadiiRef[2][i] <= currentRadiiRef[3][i]

\* a frame in the middle of an animation that was restarted mid-flight, with
\* three different radii on one axis
C30_Witness ==
  /\ StartedMidFlight
  /\ animRef.elapsed > 0
  /\ \E i \in 1..Len(currentRadiiRef[1]) :
       /\ OffRing(currentRadiiRef[1][i])
       /\ currentRadiiRef[1][i] < currentRadiiRef[2][i]
       /\ currentRadiiRef[2][i] < currentRadiiRef[3][i]

----------------------------------------------------------------------------
\* Claims about the contour paths (SpecPath)

\* reading path data: the words between spaces and commas
RECURSIVE wordsFrom(_, _, _)
wordsFrom(chars, i, word) ==
  IF i > Len(chars) THEN (IF word = <<>> THEN <<>> ELSE <<word>>)
  ELSE IF chars[i] \in {" ", ","}
  THEN (IF word = <<>> THEN <<>> ELSE <<word>>) \o wordsFrom(chars, i + 1, <<>>)
  ELSE wordsFrom(chars, i + 1, Append(word, chars[i]))

DigitValue(c) ==
  CASE c = "0" -> 0 [] c = "1" -> 1 [] c = "2" -> 2 [] c = "3" -> 3 [] c = "4" -> 4
    [] c = "5" -> 5 [] c = "6" -> 6 [] c = "7" -> 7 [] c = "8" -> 8 [] c = "9" -> 9

RECURSIVE NaturalOf(_)
NaturalOf(word) ==
  IF word = <<>> THEN 0
  ELSE 10 * NaturalOf(SubSeq(word, 1, Len(word) - 1)) + DigitValue(word[Len(word)])

NumberOf(word) == IF word[1] = "-" THEN 0 - NaturalOf(Tail(word)) ELSE NaturalOf(word)

\* the positions of the command letters of a path
CommandAt(path) == { i \in 1..Len(path) : path[i] \in {"M", "L", "C", "Z"} }

\* the position of the k-th command letter
CommandPos(path, k) ==
  CHOOSE i \in CommandAt(path) : Cardinality({ j \in CommandAt(path) : j < i }) = k - 1

\* the commands of a path with their numbers: each letter with the numbers
\* up to the next letter
ReadPath(path) ==
  [k \in 1..Cardinality(CommandAt(path)) |->
     LET first == CommandPos(path, k)
         last == IF k < Cardinality(CommandAt(path)) THEN CommandPos(path, k + 1) - 1
                 ELSE Len(path)
         words == wordsFrom(SubSeq(path, first + 1, last), 1, <<>>)
     IN [op |-> path[first], args |-> [a \in 1..Len(words) |-> NumberOf(words[a])]]]

\* the point a command ends at
EndPoint(c) == [x |-> c.args[Len(c.args) - 1], y |-> c.args[Len(c.args)]]

\* the path of the points pts read back is as the claim describes it
RoundTrip(pts) ==
  LET n == Len(pts)
      c == ReadPath(smoothClosedPathFromPoints(pts, 1))
  IN /\ n >= 3 =>
          /\ Len(c) = n + 2
          /\ c[1].op = "M" /\ Len(c[1].args) = 2 /\ EndPoint(c[1]) = pts[1]
          /\ \A k \in 1..n :
               /\ c[k + 1].op = "C"
               /\ Len(c[k + 1].args) = 6
               /\ EndPoint(c[k + 1]) = pts[(k % n) + 1]
          /\ c[n + 2] = [op |-> "Z", args |-> <<>>]
     /\ n \in {1, 2} =>
          /\ Len(c) = n + 1
          /\ c[1].op = "M" /\ Len(c[1].args) = 2 /\ EndPoint(c[1]) = pts[1]
          /\ \A k \in 2..n :
               c[k].op = "L" /\ Len(c[k].args) = 2 /\ EndPoint(c[k]) = pts[k]
          /\ c[n + 1] = [op |-> "Z", args |-> <<>>]

\* C26: the path of n >= 3 contour points starts (M) at point 0 and has
\* exactly n cubic segments that end at points 1, 2, ..., n-1, 0, so that the
\* M position and the segment end points read back are the points; the path
\* of 1 or 2 points is the M point, a straight join to each other point and
\* a close
C26_Theorem ==
  showBlobs =>
    \A idx \in 1..Len(currentRadiiRef) : RoundTrip(contourPoints(currentRadiiRef[idx]))

\* a contour of three or more distinct points in the middle of an animation
C26_Witness ==
  /\ showBlobs
  /\ animRef.set
  /\ Len(currentRadiiRef[3]) >= 3
  /\ currentRadiiRef # animRef.to
  /\ LET pts == contourPoints(currentRadiiRef[3])
     IN /\ \A j, k \in 1..Len(pts) : j # k => pts[j] # pts[k]
        /\ \E k \in 1..Len(pts) : OffRing(currentRadiiRef[3][k])

----------------------------------------------------------------------------
\* Claims about foreign pointers (SpecPointers) and reordering (SpecReorder)

\* C28: while a pointer is active, a move, release or cancel event with a
\* different pointer id changes neither the record of the drag resolver nor
\* the node collection nor the selection
C28_Theorem ==
  [][seen' # seen /\ seen'.type \in {"move", "up", "cancel"}
       /\ activePointerIdRef # NullPointer /\ seen'.pid # activePointerIdRef =>
       UNCHANGED <<dragRecord, nodes, selectedNodeId>>]_vars

\* the last event delivered is a release of the other pointer, after a move
\* the active pointer's drag followed, and the drag is still on
C28_Witness ==
  /\ activePointerIdRef # NullPointer
  /\ draggingNodeId # NullId
  /\ didDragRef
  /\ ev.type = "move" /\ ev.pid = activePointerIdRef
  /\ seen.type = "up"
  /\ seen.pid # activePointerIdRef

\* n is on the axis and no node of the axis sorts before / after it
FirstOnAxis(ns, axisId, nodeId) ==
  \E n \in OnAxis(ns, axisId) :
    n.id = nodeId /\ \A m \in OnAxis(ns, axisId) : m.id # nodeId => Before(n, m)
LastOnAxis(ns, axisId, nodeId) ==
  \E n \in OnAxis(ns, axisId) :
    n.id = nodeId /\ \A m \in OnAxis(ns, axisId) : m.id # nodeId => Before(m, n)

\* C29: moveNodeInAxis returns the collection unchanged when the node is not
\* on the given axis, when it is first and moved up, and when it is last and
\* moved down; in every call the nodes of other axes keep their sequence and
\* no node changes id, label, axisId or ringId
C29_Theorem ==
  [][seen' # seen /\ seen'.type = "reorder" =>
       LET axisId == seen'.axisId
           nodeId == seen'.node
       IN /\ ( \/ ~\E n \in OnAxis(nodes, axisId) : n.id = nodeId
               \/ FirstOnAxis(nodes, axisId, nodeId) /\ seen'.direction < 0
               \/ LastOnAxis(nodes, axisId, nodeId) /\ seen'.direction > 0 )
             => nodes' = nodes
          /\ Len(nodes') = Len(nodes)
          /\ \A i \in 1..Len(nodes) :
               /\ nodes'[i].id = nodes[i].id
               /\ nodes'[i].label = nodes[i].label
               /\ nodes'[i].axisId = nodes[i].axisId
               /\ nodes'[i].ringId = nodes[i].ringId
               /\ nodes[i].axisId # axisId => nodes'[i].sequence = nodes[i].sequence]_vars

\* the last call moved up the first of several nodes of an axis whose
\* sequences do not start at 1, and they still do not
C29_Witness ==
  /\ seen.type = "reorder"
  /\ seen.direction < 0
  /\ FirstOnAxis(nodes, seen.axisId, seen.node)
  /\ Cardinality(OnAxis(nodes, seen.axisId)) >= 2
  /\ \A n \in OnAxis(nodes, seen.axisId) : n.sequence > 1

----------------------------------------------------------------------------
\* Claims about the contour toggles (SpecToggles)

\* C31: the shown contours stay cumulative: Later shown implies Next shown,
\* and Next shown implies Now shown
C31_Theorem == (showLaterBlob => showNextBlob) /\ (showNextBlob => showNowBlob)

\* Now alone is shown, after clicks on the toggles
C31_Witness == showNowBlob /\ ~showNextBlob /\ ~showLaterBlob

----------------------------------------------------------------------------
\* Further claims about drops (Spec)

\* the committed nodes of an axis
CommittedOn(ns, axisId) ==
  {n \in SeqToSet(ns) : n.axisId = axisId /\ n.ringId # "uncommitted"}

\* C32: a drop on an axis whose committed nodes all have a raw radius of at
\* most the base radius of next (0.7 of the outer radius) never resolves to
\* later, and a drop on an axis without committed nodes resolves to now or
\* to uncommitted
C32_Theorem ==
  [][DropStep =>
       LET new == TheNode(nodes', draggingNodeId)
           committed == CommittedOn(nodes, new.axisId)
       IN /\ (\A n \in committed : RawRadius(nodes, n) <= BaseRadius("next"))
             => new.ringId # "later"
          /\ committed = {} => new.ringId \in {"now", "uncommitted"}]_vars

\* a drop nearest to the outer ring, on an axis whose committed nodes reach
\* at most the base radius of next, resolved to uncommitted
C32_Witness ==
  /\ ev.outcome = "drop"
  /\ ev.ringId = "uncommitted"
  /\ Abs(ev.dropR - BaseRadius("later")) < Abs(ev.dropR - BaseRadius("next"))
  /\ CommittedOn(nodes, ev.axisId) # {}
  /\ \A n \in CommittedOn(nodes, ev.axisId) : RawRadius(nodes, n) <= BaseRadius("next")

\* C33: a drop is idempotent: the same node dropped once more at the same
\* point, on the collection the drop has just produced, leaves that
\* collection as it is
C33_Claim ==
  ev.outcome = "drop" =>
    dropNodes(nodes, ev.node, ev.axisId, snapRingIdFromRadius(ev.axisId, ev.dropR)) = nodes
\* C34: a cancel of the active pointer after the threshold was crossed is
\* resolved like a release at the last drag position: the node goes to the
\* nearest axis and to the ring of the drop radius, with the sequence rule of
\* a drop, and becomes the selected node; a cancel before the threshold
\* selects the pressed node and changes no node, as a click does.
C34_Theorem ==
  [][/\ EndStep
     /\ ev'.type = "cancel"
     /\ \E n \in SeqToSet(nodes) : n.id = draggingNodeId
     => IF didDragRef
        THEN LET old == TheNode(nodes, draggingNodeId)
                 new == TheNode(nodes', draggingNodeId)
                 there == {n \in SeqToSet(nodes) :
                             n.axisId = new.axisId /\ n.ringId = new.ringId}
             IN /\ dragPos.set
                /\ \E i \in 1..Len(axes) :
                     /\ axes[i] = new.axisId
                     /\ \A j \in 1..Len(axes) :
                          CircularDistance(DropAngle, SpecAxisAngle(j))
                            >= CircularDistance(DropAngle, SpecAxisAngle(i))
                /\ RingLaw(new.ringId, DropRadius,
                           Frontier(nodes, new.axisId, AllRingIds \ {"uncommitted"}))
                /\ IF new.axisId # old.axisId \/ new.ringId # old.ringId
                   THEN new.sequence = (IF there = {} THEN 1
                                        ELSE SetMax({n.sequence : n \in there}) + 1)
                   ELSE new = old
                /\ Len(nodes') = Len(nodes)
                /\ \A i \in 1..Len(nodes) :
                     nodes[i].id # draggingNodeId => nodes'[i] = nodes[i]
                /\ selectedNodeId' = draggingNodeId
        ELSE /\ nodes' = nodes
             /\ selectedNodeId' = draggingNodeId]_vars

\* a cancelled drag that moved a node, not selected before, to another axis
C34_Witness ==
  /\ ev.type = "cancel"
  /\ ev.outcome = "drop"
  /\ selectedNodeId = ev.node
  /\ ev.axisId # "a1"
  /\ \E n \in SeqToSet(nodes) : n.id = ev.node /\ n.axisId = ev.axisId

\* a cancelled press that selected the pressed node
CancelledPress ==
  /\ ev.type = "cancel"
  /\ ev.outcome = "click"
  /\ selectedNodeId = ev.node


\* C35: one node at most is in a press or drag: a press on a node replaces
\* the active pointer, the start position, the dragging node and the drag
\* position and clears the threshold flag, whether or not another pointer's
\* press or drag is on; events of a pointer that is not the active one are
\* then ignored, and the node collection changes only by the release or
\* cancel of the active pointer and only in the node of its drag
C35_Theorem ==
  [][/\ seen' # seen /\ seen'.type = "down" =>
          /\ activePointerIdRef' = seen'.pid
          /\ draggingNodeId' = seen'.node
          /\ dragStartClientRef' = Pos(ev'.x, ev'.y)
          /\ dragPos' = PointerSvg
          /\ ~didDragRef'
          /\ nodes' = nodes
     /\ seen' # seen /\ seen'.type \in {"move", "up", "cancel"}
          /\ seen'.was # NullPointer /\ seen'.pid # seen'.was =>
          UNCHANGED <<dragRecord, nodes, selectedNodeId>>
     /\ nodes' # nodes =>
          /\ seen' # seen
          /\ seen'.type \in {"up", "cancel"}
          /\ seen'.pid = activePointerIdRef
          /\ Len(nodes') = Len(nodes)
          /\ \A i \in 1..Len(nodes) :
               nodes[i].id # draggingNodeId => nodes'[i] = nodes[i]]_vars

\* the second pointer has just pressed n2 while the first pointer's
\* interaction with n1 was on: n2 is the dragging node and no node has changed
C35_Witness ==
  /\ seen.type = "down"
  /\ seen.was = 1 /\ seen.pid = 2
  /\ seen.held = "n1" /\ seen.node = "n2"
  /\ ev.type = "down" /\ ev.pid = 2
  /\ activePointerIdRef = 2
  /\ draggingNodeId = "n2"
  /\ ~didDragRef
  /\ nodes = EditNodes

\* C36: the selection never dangles: selectedNodeId is null or the id of a
\* node of the collection
C36_Claim ==
  selectedNodeId = NullId \/ \E n \in SeqToSet(nodes) : n.id = selectedNodeId

\* every node is on an axis of the axis list and in a ring of the ring list
RefsLive(as, ns) ==
  \A n \in SeqToSet(ns) : n.axisId \in SeqToSet(as) /\ n.ringId \in SeqToSet(rings)

\* C37: the operations of the editor and drops keep every node's axisId in
\* the axis list and ringId in the ring list, and a confirmed delete of an
\* axis removes that axis and exactly the nodes on it
C37_Theorem ==
  [][RefsLive(axes, nodes) =>
       /\ RefsLive(axes', nodes')
       /\ ev'.type = "deleteAxis" /\ axes' # axes =>
            /\ axes' = SelectSeq(axes, LAMBDA a: a # ev'.axisId)
            /\ nodes' = SelectSeq(nodes, LAMBDA n: n.axisId # ev'.axisId)]_vars

\* an axis has just been deleted with its node, the node of the other axis
\* is still there
C37_Witness ==
  /\ ev.type = "deleteAxis"
  /\ ev.axisId \notin SeqToSet(axes)
  /\ ~hasNode(nodes, "n2")
  /\ hasNode(nodes, "n1")
  /\ RefsLive(axes, nodes)

\* some committed node of the axis in a lower ring comes, in the order by
\* (sequence, label), after a committed node in a higher ring
Inverted(axisId) ==
  \E n, m \in CommittedOn(nodes, axisId) :
    Before(n, m) /\ ringRank(m.ringId) < ringRank(n.ringId)

\* C38: an axis carries a warning exactly when the ring ranks of its
\* committed nodes are not non-decreasing along the order by (sequence,
\* label), uncommitted nodes being ignored wherever they sit
C38_Claim ==
  \A i \in 1..Len(axes) : (axisWarnings(axes[i]) # {}) <=> Inverted(axes[i])

\* the same for axes on which no uncommitted node sits between two committed
\* ones
NoneBetween(axisId) ==
  \A n, m \in CommittedOn(nodes, axisId), u \in OnAxis(nodes, axisId) :
    ~(u.ringId = "uncommitted" /\ Before(n, u) /\ Before(u, m))
AdjacentWarnings ==
  \A i \in 1..Len(axes) :
    NoneBetween(axes[i]) => ((axisWarnings(axes[i]) # {}) <=> Inverted(axes[i]))

\* C39: with autosave on and an active snapshot, once 500 ms have passed
\* since the last change the state stored in the active snapshot is the
\* working state
C39_Claim ==
  /\ ev.type = "quiet"
  /\ autosave.autoSaveEnabled
  /\ autosave.activeSnapshotId # NullSnapshot
  => autosave.state = buildStatePayload

====
